---- MODULE Spec2Model ----
(***************************************************************************)
(* WhatsApp fuel extractor: the report pipeline (plate whitelist, 12 hour  *)
(* cooldown, odometer check, persistence), the vehicle last-state store    *)
(* and the pending-approval list, as implemented by                        *)
(*   src/python/processor.py         inbox processor                       *)
(*   src/python/webhook_receiver.py  webhook path and WhatsApp commands    *)
(*   src/python/web.py               dashboard approve / reject / admin    *)
(*   src/python/message_sync.py      message-id markers and missed sync    *)
(* Time is counted in whole hours.  A handler is one atomic action, except *)
(* in SpecRace and SpecSync, where a handler is split at the points where  *)
(* the code releases the file lock or awaits.                              *)
(* Writes of the JSON state files succeed unless the code branches on the  *)
(* result of safe_json_save.                                               *)
(***************************************************************************)
EXTENDS Integers, Sequences, FiniteSets, TLC

(**************************** bounds of the model **************************)
MaxReports == 2      \* inbound reports over a run
MaxTime == 12        \* the last hour the clock reaches
TrimCeiling == 2     \* stands for the 500 of save_pending_approval
TrimKeep == 1        \* stands for the 300 of save_pending_approval

(***************************** program constants ***************************)
CAR_COOLDOWN_HOURS == 12
EFFICIENCY_ALERT_LOW == 4
EFFICIENCY_ALERT_HIGH == 20

(* Numeric fields (liters, amount, odometer) are naturals.  The parser's   *)
(* patterns ([\d,\.]+) cannot produce a negative number, so two negative   *)
(* codes stand for the non-numeric values a numeric field can hold.        *)
EmptyStr == 0 - 1    \* '' : the field is absent (record.get(field, ''))
BadNum == 0 - 2      \* a digit string float() rejects, such as '1.2.3'

IsNumber(v) == v >= 0
\* Python truthiness of a numeric field: 0 and '' are falsy.
Truthy(v) == v > 0 \/ v = BadNum

(******************************** plates ***********************************)
KCA542Q == <<"K", "C", "A", "5", "4", "2", "Q">>
KCA_542Q == <<"K", "C", "A", " ", "5", "4", "2", "Q">>
ZZZ999Z == <<"Z", "Z", "Z", "9", "9", "9", "Z">>
zzz_999z == <<"z", "z", "z", " ", "9", "9", "9", "z">>
NoPlate == << >>

Upper(c) == CASE c = "z" -> "Z" [] c = "k" -> "K" [] c = "q" -> "Q" [] OTHER -> c
IsSpace(c) == c \in {" ", "\t", "\n"}

RECURSIVE StripSpaces(_)
StripSpaces(s) ==
  IF s = << >> THEN << >>
  ELSE IF IsSpace(Head(s)) THEN StripSpaces(Tail(s))
       ELSE <<Head(s)>> \o StripSpaces(Tail(s))

\* re.sub(r'\s+', '', str(plate)).upper()
normalize_plate(plate) ==
  LET t == StripSpaces(plate) IN [i \in 1..Len(t) |-> Upper(t[i])]

\* The plates a report or a command can name, normalized.
Plates == {KCA542Q, ZZZ999Z}
\* The fleet at start-up (one plate of the 82 of processor.py).
InitialFleet == {KCA542Q}

(******************************** reports **********************************)
Fields == {"department", "driver", "car", "liters", "amount", "type", "odometer"}
NumericFields == {"liters", "amount", "odometer"}

\* What FuelReportParser.parse hands to the pipeline: every field it found,
\* '' (EmptyStr for a numeric field) for a field it did not find.
BaseParsed ==
  [department |-> "LOGISTICS", driver |-> "John Kamau", car |-> KCA_542Q,
   liters |-> 20, amount |-> 7500, type |-> "DIESEL", odometer |-> 10400]

\* Complete reports: two readings of the odometer, two plates.
Readings ==
  {[driver |-> "John Kamau", liters |-> 20, amount |-> 7500, odometer |-> 10000],
   [driver |-> "Mary Atieno", liters |-> 45, amount |-> 7000, odometer |-> 10400]}

ReportedPlates == {KCA_542Q, ZZZ999Z}

CompleteParsed ==
  {[BaseParsed EXCEPT !.driver = r.driver, !.liters = r.liters, !.amount = r.amount,
                      !.odometer = r.odometer, !.car = c] :
     r \in Readings, c \in ReportedPlates}

Blank(f) == IF f \in NumericFields THEN EmptyStr ELSE IF f = "car" THEN NoPlate ELSE ""

Without(p, fs) == [f \in Fields |-> IF f \in fs THEN Blank(f) ELSE p[f]]

\* Field sets the parser failed to find, down to the 2 fields of lenient mode.
MissingSets ==
  {{"odometer"}, {"car"}, {"department", "type"}, Fields \ {"car", "odometer"}, Fields}

IncompleteParsed == {Without(BaseParsed, fs) : fs \in MissingSets}

\* A numeric field that was found but is zero or not a number.
OddParsed ==
  {[BaseParsed EXCEPT !.odometer = 0], [BaseParsed EXCEPT !.odometer = BadNum]}

ParserResults == CompleteParsed \cup IncompleteParsed \cup OddParsed

IsPresent(p, f) ==
  IF f \in NumericFields THEN p[f] # EmptyStr
  ELSE IF f = "car" THEN p[f] # NoPlate ELSE p[f] # ""

\* len(parsed)
NumFields(p) == Cardinality({f \in Fields : IsPresent(p, f)})

\* not value or (isinstance(value, str) and not value.strip())
IsMissing(p, f) ==
  IF f \in NumericFields THEN ~Truthy(p[f])
  ELSE IF f = "car" THEN StripSpaces(p[f]) = << >> ELSE p[f] = ""

\* missing_fields leaving the odometer out of the required fields
missing_fields_NoOdometer(p) == {f \in Fields \ {"odometer"} : IsMissing(p, f)}

missing_fields(p) == {f \in Fields : IsMissing(p, f)}

\* int(float(str(v).replace(',', ''))) with the given default when it raises
ToInt(v, default) == IF IsNumber(v) THEN v ELSE default


(********************************* state ***********************************)
VARIABLES
  now,                \* wall clock, hours
  nextMsg,            \* number of the next inbound message
  ALLOWED_PLATES,     \* processor.ALLOWED_PLATES
  car_last_update,    \* data/car_last_update.json : plate -> last state
  approvals,          \* data/pending_approvals.json
  validation_errors,  \* data/validation_errors.json (notification queue)
  whatsapp,           \* messages sent through send_whatsapp_message
  confirmations,      \* data/confirmations.json
  efficiency_history, \* data/efficiency_history.json
  workbook,           \* rows of the Excel output file
  store,              \* records saved to database / sheet / local JSON
  errors,             \* data/errors : messages moved there, with the reason
  accepted,           \* history: every persisted record, in acceptance order
  outcome,            \* history: how each message ended, in processing order
  inflight,           \* per handler: the message it has checked and not yet written
  processed_message_ids, \* MessageSyncManager: the message ids with a marker file
  message_ids,        \* history: the file / WhatsApp id of each processed message
  inbox,              \* data/raw_messages: the message files waiting
  processed,          \* data/processed: the message files moved there
  processor_py,       \* the plates of ALLOWED_PLATES in the text of processor.py
  files,              \* one JSON state file and its .json.tmp: their content
  saving,             \* the call of safe_json_save that is running
  message,            \* the text handed to FuelReportParser.parse
  parsed              \* what FuelReportParser.parse returned for it

vars == <<now, nextMsg, ALLOWED_PLATES, car_last_update, approvals,
          validation_errors, whatsapp, confirmations, efficiency_history,
          workbook, store, errors, accepted, outcome, inflight,
          processed_message_ids, message_ids, inbox, processed,
          processor_py, files, saving, message, parsed>>

\* the handlers that can be between their check and their write
Handlers == {"inbox", "webhook", "sync"}

NoEfficiency == << >>   \* None; an efficiency d / l is the pair <<d, l>>

\* record built by process_message_file / process_fuel_report; msg stands
\* for datetime, sender and raw_message, which identify the message.
MakeRecord(m, p) ==
  [msg |-> m, department |-> p.department, driver |-> p.driver, car |-> p.car,
   liters |-> p.liters, amount |-> p.amount, type |-> p.type,
   odometer |-> p.odometer]

HasState(plate) == normalize_plate(plate) \in DOMAIN car_last_update

\* get_car_last_update; callers test HasState first (None otherwise)
get_car_last_update(plate) == car_last_update[normalize_plate(plate)]

SetKey(f, k, v) == [x \in DOMAIN f \cup {k} |-> IF x = k THEN v ELSE f[x]]

\* LastStateEntry that does not copy the record's odometer
LastStateEntry_NoOdometer(record, efficiency) ==
  [timestamp |-> now, driver |-> record.driver, liters |-> record.liters,
   amount |-> record.amount, odometer |-> EmptyStr, type |-> record.type,
   department |-> record.department, efficiency |-> efficiency]

LastStateEntry(record, efficiency) ==
  [timestamp |-> now, driver |-> record.driver, liters |-> record.liters,
   amount |-> record.amount, odometer |-> record.odometer, type |-> record.type,
   department |-> record.department, efficiency |-> efficiency]

\* update_car_last_update: the new content of car_last_update.json
update_car_last_update(plate, record, efficiency) ==
  SetKey(car_last_update, normalize_plate(plate), LastStateEntry(record, efficiency))

\* save_validation_error tagging the sender whatever is_approval_request is
ValidationError_ToSender(record, issue, to_admins, extra) ==
  [msg |-> record.msg, issue |-> issue,
   is_approval_request |-> FALSE, hours_remaining |-> extra]

\* save_validation_error: one more entry in the notification queue
ValidationError(record, issue, to_admins, extra) ==
  [msg |-> record.msg, issue |-> issue,
   is_approval_request |-> to_admins, hours_remaining |-> extra]

\* save_pending_approval: append, then trim once the list passes the ceiling
Trimmed(list) ==
  IF Len(list) > TrimCeiling
  THEN LET pending == SelectSeq(list, LAMBDA a : a.status = "pending")
           decided == SelectSeq(list, LAMBDA a : a.status # "pending")
           n == Len(decided)
       IN pending \o SubSeq(decided, IF n > TrimKeep THEN n - TrimKeep + 1 ELSE 1, n)
  ELSE list

save_pending_approval(approval_type, record, original_record, reason) ==
  Trimmed(Append(approvals,
    [id |-> record.msg, type |-> approval_type, timestamp |-> now,
     record |-> record, original_record |-> original_record, reason |-> reason,
     status |-> "pending"]))

\* check_car_cooldown: TRUE when the report may proceed.  A blocked report
\* is saved as a pending approval and announced to the admins.
HoursSince(plate) == now - get_car_last_update(plate).timestamp

\* CooldownBlocks with a window two hours shorter
CooldownBlocks_ShortWindow(plate) ==
  /\ HasState(plate)
  /\ HoursSince(plate) < CAR_COOLDOWN_HOURS - 2

CooldownBlocks(plate) ==
  /\ HasState(plate)
  /\ HoursSince(plate) < CAR_COOLDOWN_HOURS

check_car_cooldown(plate) == ~CooldownBlocks(plate)

CooldownApprovals(plate, record) ==
  save_pending_approval("car_cooldown", record, get_car_last_update(plate),
                        HoursSince(plate))

\* CooldownNotice announcing the hours elapsed instead of the hours left
CooldownNotice_Elapsed(plate, record) ==
  ValidationError(record, "DUPLICATE FUEL REPORT", TRUE, HoursSince(plate))

CooldownNotice(plate, record) ==
  ValidationError(record, "DUPLICATE FUEL REPORT", TRUE,
                  CAR_COOLDOWN_HOURS - HoursSince(plate))


(*************************** efficiency (km/L) *****************************)
\* calculate_fuel_efficiency: the efficiency as the pair <<distance, liters>>
calculate_fuel_efficiency(plate, current_odometer) ==
  IF ~HasState(plate) THEN NoEfficiency
  ELSE LET lu == get_car_last_update(plate) IN
       IF ~IsNumber(lu.odometer) \/ ~IsNumber(lu.liters) THEN NoEfficiency
       ELSE IF lu.odometer <= 0 \/ current_odometer <= lu.odometer THEN NoEfficiency
       ELSE IF lu.liters <= 0 THEN NoEfficiency
       ELSE <<current_odometer - lu.odometer, lu.liters>>

\* EfficiencyAlert raising the high alert from EFFICIENCY_ALERT_HIGH on
EfficiencyAlert_HighInclusive(e) ==
  IF e = NoEfficiency THEN ""
  ELSE IF e[1] < EFFICIENCY_ALERT_LOW * e[2] THEN "low_efficiency"
  ELSE IF e[1] >= EFFICIENCY_ALERT_HIGH * e[2] THEN "high_efficiency"
  ELSE ""

\* the alert of calculate_fuel_efficiency: "", "low_efficiency" or "high_efficiency"
EfficiencyAlert(e) ==
  IF e = NoEfficiency THEN ""
  ELSE IF e[1] < EFFICIENCY_ALERT_LOW * e[2] THEN "low_efficiency"
  ELSE IF e[1] > EFFICIENCY_ALERT_HIGH * e[2] THEN "high_efficiency"
  ELSE ""

\* RecordEfficiency dividing by the liters of the record itself
RecordEfficiency_CurrentLiters(record) ==
  IF IsNumber(record.odometer) /\ IsNumber(record.liters)
     /\ record.odometer > 0 /\ record.liters > 0
     /\ calculate_fuel_efficiency(record.car, record.odometer) # NoEfficiency
  THEN <<calculate_fuel_efficiency(record.car, record.odometer)[1], record.liters>>
  ELSE NoEfficiency

\* the efficiency process_message_file computes for an accepted record
RecordEfficiency(record) ==
  IF IsNumber(record.odometer) /\ IsNumber(record.liters)
     /\ record.odometer > 0 /\ record.liters > 0
  THEN calculate_fuel_efficiency(record.car, record.odometer)
  ELSE NoEfficiency

(****************************** the workbook *******************************)
\* ExcelExporter.get_last_odometer_for_car: the odometer of the last row of
\* the plate that holds a number; 0 - 1 stands for None.
RECURSIVE LastOdometerIn(_, _)
LastOdometerIn(rows, plate) ==
  IF rows = << >> THEN EmptyStr
  ELSE LET r == rows[Len(rows)] IN
       IF normalize_plate(r.car) = normalize_plate(plate) /\ Truthy(r.odometer)
          /\ IsNumber(r.odometer)
       THEN r.odometer
       ELSE LastOdometerIn(SubSeq(rows, 1, Len(rows) - 1), plate)

get_last_odometer_for_car(plate) == LastOdometerIn(workbook, plate)

\* validate_odometer refusing only a smaller reading, not an equal one
validate_odometer_EqualPasses(record) ==
  IF ~(Truthy(record.odometer) /\ IsNumber(record.odometer)) THEN TRUE
  ELSE LET lo == get_last_odometer_for_car(record.car) IN
       IF lo = EmptyStr THEN TRUE ELSE ~(record.odometer < lo)

\* ExcelExporter.validate_odometer, as append_record calls it: FALSE when the
\* new reading is not greater than the last one in the workbook.
validate_odometer(record) ==
  IF ~(Truthy(record.odometer) /\ IsNumber(record.odometer)) THEN TRUE
  ELSE LET lo == get_last_odometer_for_car(record.car) IN
       IF lo = EmptyStr THEN TRUE ELSE ~(record.odometer <= lo)

(************************ inbox path: processor.py *************************)
Accepted(record, via) == [record |-> record, via |-> via, at |-> now]

Outcome(m, path, result) == [msg |-> m, path |-> path, result |-> result]

\* The optional uploads of the inbox path follow config.json (upload.toDatabase,
\* upload.toGoogleSheets), which is off unless configured: no upload is made.

\* How process_message_file ends for a message: p is what the parser returned,
\* isApproved the flag of the message file, excel_ok whether the workbook
\* could be written.
InboxDecision(p, isApproved, excel_ok) ==
  LET record == MakeRecord(0, [p EXCEPT !.car = normalize_plate(p.car)]) IN
  IF NumFields(p) < 3 THEN "parse_failed"
  ELSE IF missing_fields(p) # {} THEN "missing_fields"
  ELSE IF normalize_plate(p.car) \notin ALLOWED_PLATES THEN "unauthorized"
  ELSE IF ~isApproved /\ ~check_car_cooldown(normalize_plate(p.car)) THEN "pending"
  ELSE IF ~validate_odometer(record) THEN "odometer_error"
  ELSE IF ~excel_ok THEN "retry"
  ELSE "accepted"

process_message_file(p, isApproved, excel_ok) ==
  LET m == nextMsg
      raw == MakeRecord(m, p)
      record == [raw EXCEPT !.car = normalize_plate(raw.car)]
      plate == record.car
      eff == RecordEfficiency(record)
      alert == EfficiencyAlert(eff)
      d == InboxDecision(p, isApproved, excel_ok)
  IN
  /\ UNCHANGED <<inflight, processed_message_ids,
                 now, files, saving, message, parsed, ALLOWED_PLATES, processor_py, whatsapp, store>>
  /\ IF d = "retry" THEN
       \* returns False: the file stays in the inbox and is read again later
       UNCHANGED <<nextMsg, errors, outcome>>
     ELSE
       /\ nextMsg' = nextMsg + 1
       /\ outcome' = Append(outcome, Outcome(m, "inbox", d))
       /\ errors' = IF d = "accepted" THEN errors
                    ELSE Append(errors, [msg |-> m, reason |-> d])
  /\ validation_errors' =
       CASE d = "missing_fields" ->
              Append(validation_errors,
                     ValidationError(raw, "Missing required field(s)", FALSE, 0))
         [] d = "unauthorized" ->
              Append(validation_errors,
                     ValidationError(raw, "not in the approved fleet list", FALSE, 0))
         [] d = "pending" -> Append(validation_errors, CooldownNotice(plate, record))
         [] d = "odometer_error" ->
              Append(validation_errors, ValidationError(record, "Odometer reading", FALSE, 0))
         [] d = "accepted" /\ alert # "" ->
              Append(validation_errors, ValidationError(record, alert, TRUE, 0))
         [] OTHER -> validation_errors
  /\ approvals' = IF d = "pending" THEN CooldownApprovals(plate, record) ELSE approvals
  /\ IF d = "accepted" THEN
       /\ workbook' = Append(workbook, record)
       /\ accepted' = Append(accepted,
              Accepted(record, IF isApproved THEN "inbox_approved" ELSE "inbox"))
       /\ efficiency_history' =
            IF eff # NoEfficiency
            THEN Append(efficiency_history,
                   [msg |-> m, car |-> plate, distance |-> eff[1], liters |-> eff[2]])
            ELSE efficiency_history
       /\ car_last_update' = update_car_last_update(plate, record, eff)
       /\ confirmations' = Append(confirmations, [msg |-> m, efficiency |-> eff])
     ELSE UNCHANGED <<workbook, accepted, efficiency_history, car_last_update,
                      confirmations>>

ProcessMessageFile ==
  /\ nextMsg <= MaxReports
  /\ \E p \in ParserResults, isApproved \in BOOLEAN, excel_ok \in BOOLEAN :
       process_message_file(p, isApproved, excel_ok)
  /\ UNCHANGED <<message_ids, inbox, processed>>

(********************* webhook path: webhook_receiver.py *******************)
\* What the destinations do with one save: the database inserts the row, or
\* insert_fuel_record returns False, or the connection raises; the sheet and
\* the local JSON file are written or raise.
SaveOutcomes ==
  {[db |-> "ok", sheets |-> TRUE, json |-> TRUE],
   [db |-> "down", sheets |-> FALSE, json |-> TRUE],
   [db |-> "insert_failed", sheets |-> FALSE, json |-> FALSE],
   [db |-> "down", sheets |-> FALSE, json |-> FALSE]}

\* save_record_with_fallback: the destinations it reports ...
SavedTo(o) ==
  (IF o.db # "down" THEN {"Database"} ELSE {})
    \cup (IF o.sheets THEN {"Google Sheets"} ELSE {})
    \cup (IF o.json THEN {"Local JSON"} ELSE {})

\* ... and the destinations that hold the record afterwards
StoredIn(o) ==
  (IF o.db = "ok" THEN {"Database"} ELSE {})
    \cup (IF o.sheets THEN {"Google Sheets"} ELSE {})
    \cup (IF o.json THEN {"Local JSON"} ELSE {})

\* one message sent to the group; to is "sender", "admins" or "group"
WhatsApp(m, to, kind, extra) ==
  [msg |-> m, to |-> to, kind |-> kind, hours_remaining |-> extra]

\* check_car_cooldown_with_message, of which the source holds only the call:
\* check_car_cooldown, returning the text of the notice instead of queuing it.
check_car_cooldown_with_message(plate) == check_car_cooldown(plate)

\* the odometer check of process_fuel_report, against car_last_update.json
OdometerRegression(plate, record) ==
  /\ plate \in DOMAIN car_last_update
  /\ LET lu == car_last_update[plate] IN
       /\ IsNumber(lu.odometer) /\ IsNumber(record.odometer)
       /\ record.odometer <= lu.odometer
       /\ record.odometer > 0
       /\ lu.odometer > 0

\* WebhookDecision without the test against the fleet list
WebhookDecision_NoFleetTest(p, o) ==
  LET plate == normalize_plate(p.car) IN
  IF NumFields(p) < 3 THEN "parse_failed"
  ELSE IF missing_fields(p) # {} THEN "missing_fields"
  ELSE IF ~check_car_cooldown_with_message(plate) THEN "pending"
  ELSE IF OdometerRegression(plate, MakeRecord(0, p)) THEN "odometer_error"
  ELSE IF SavedTo(o) = {} THEN "save_failed"
  ELSE "accepted"

\* How process_fuel_report ends for a message; o is what the destinations do.
WebhookDecision(p, o) ==
  LET plate == normalize_plate(p.car) IN
  IF NumFields(p) < 3 THEN "parse_failed"
  ELSE IF missing_fields(p) # {} THEN "missing_fields"
  ELSE IF plate \notin ALLOWED_PLATES THEN "unauthorized"
  ELSE IF ~check_car_cooldown_with_message(plate) THEN "pending"
  ELSE IF OdometerRegression(plate, MakeRecord(0, p)) THEN "odometer_error"
  ELSE IF SavedTo(o) = {} THEN "save_failed"
  ELSE "accepted"

WebhookNotice(d) ==
  CASE d = "parse_failed" -> "FUEL REPORT ERROR"
    [] d = "missing_fields" -> "MISSING REQUIRED FIELDS"
    [] d = "unauthorized" -> "VEHICLE NOT IN FLEET"
    [] d = "pending" -> "DUPLICATE FUEL REPORT"
    [] d = "odometer_error" -> "ODOMETER ERROR"
    [] d = "save_failed" -> "FAILED TO SAVE RECORD"
    [] OTHER -> "FUEL REPORT LOGGED"

process_fuel_report(p, o) ==
  LET m == nextMsg
      raw == MakeRecord(m, p)
      record == [raw EXCEPT !.car = normalize_plate(raw.car)]
      plate == record.car
      d == WebhookDecision(p, o)
      stored == d = "accepted" /\ StoredIn(o) # {}
  IN
  /\ nextMsg' = nextMsg + 1
  /\ outcome' = Append(outcome, Outcome(m, "webhook", d))
  /\ whatsapp' = Append(whatsapp,
       WhatsApp(m, CASE d = "pending" -> "admins" [] d = "accepted" -> "group"
                     [] OTHER -> "sender",
                WebhookNotice(d),
                IF d = "pending" THEN CAR_COOLDOWN_HOURS - HoursSince(plate) ELSE 0))
  /\ approvals' = IF d = "pending" THEN CooldownApprovals(plate, record) ELSE approvals
  /\ store' = IF stored THEN Append(store, record) ELSE store
  /\ accepted' = IF stored THEN Append(accepted, Accepted(record, "webhook")) ELSE accepted
  /\ car_last_update' = IF d = "accepted"
                        THEN update_car_last_update(plate, record, NoEfficiency)
                        ELSE car_last_update
  /\ UNCHANGED <<inbox, processed,
                 now, files, saving, message, parsed, ALLOWED_PLATES, processor_py, validation_errors, confirmations,
                 efficiency_history, workbook, errors>>

ProcessFuelReport ==
  /\ nextMsg <= MaxReports
  /\ \E p \in ParserResults, o \in SaveOutcomes : process_fuel_report(p, o)
  /\ UNCHANGED <<inflight, processed_message_ids, message_ids>>

(************************* the approval state machine **********************)
ApprovalIds == 1..MaxReports   \* the ids an admin may type

HasApproval(list, id) == \E i \in 1..Len(list) : list[i].id = id

\* the first entry with this id, as the loops over the list find it
IndexOf(list, id) == CHOOSE i \in 1..Len(list) :
                        /\ list[i].id = id
                        /\ \A j \in 1..(i - 1) : list[j].id # id

\* DecisionMessage without the test of the entry's status
DecisionMessage_NoStatusTest(id, save_ok) ==
  IF approvals = << >> THEN "No pending approvals"
  ELSE IF ~HasApproval(approvals, id) THEN "not found"
  ELSE IF ~save_ok THEN "Failed to save"
  ELSE "ok"

\* the message approve_pending / reject_pending return for this id; "ok"
\* stands for the success message, save_ok for the result of safe_json_save
DecisionMessage(id, save_ok) ==
  IF approvals = << >> THEN "No pending approvals"
  ELSE IF ~HasApproval(approvals, id) THEN "not found"
  ELSE IF approvals[IndexOf(approvals, id)].status # "pending" THEN "already processed"
  ELSE IF ~save_ok THEN "Failed to save"
  ELSE "ok"

\* the list after a successful decision
Decided(id, status) ==
  [approvals EXCEPT ![IndexOf(approvals, id)].status = status]

\* approve_pending / reject_pending: the content of pending_approvals.json
approve_pending(id, save_ok) ==
  IF DecisionMessage(id, save_ok) = "ok" THEN Decided(id, "approved") ELSE approvals

reject_pending(id, save_ok) ==
  IF DecisionMessage(id, save_ok) = "ok" THEN Decided(id, "rejected") ELSE approvals

\* the record approve_pending returns on success
RecordOf(id) == approvals[IndexOf(approvals, id)].record

\* process_approved_record: database and sheet, then the last state
process_approved_record(record, o) ==
  LET stored == (o.db = "ok" \/ o.sheets) IN
  /\ store' = IF stored THEN Append(store, record) ELSE store
  /\ accepted' = IF stored THEN Append(accepted, Accepted(record, "approved"))
                 ELSE accepted
  /\ car_last_update' = update_car_last_update(record.car, record, NoEfficiency)

\* process_admin_command, '!approve <id>' sent by a group admin
ApproveCommand(id, save_ok, o) ==
  /\ approvals' = approve_pending(id, save_ok)
  /\ IF DecisionMessage(id, save_ok) = "ok"
     THEN process_approved_record(RecordOf(id), o)
     ELSE UNCHANGED <<store, accepted, car_last_update>>
  /\ UNCHANGED <<inflight, processed_message_ids, message_ids, inbox, processed,
                 now, files, saving, message, parsed, nextMsg, ALLOWED_PLATES, processor_py, validation_errors, whatsapp,
                 confirmations, efficiency_history, workbook, errors, outcome>>

\* process_admin_command, '!reject <id>' sent by a group admin
RejectCommand(id, save_ok) ==
  /\ approvals' = reject_pending(id, save_ok)
  /\ UNCHANGED <<inflight, processed_message_ids, message_ids, inbox, processed,
                 now, files, saving, message, parsed, nextMsg, ALLOWED_PLATES, processor_py, car_last_update, validation_errors,
                 whatsapp, confirmations, efficiency_history, workbook, store,
                 errors, accepted, outcome>>

\* the types for which the approve route of web.py saves the record
WebSavedTypes == {"car_cooldown", "driver_change", "edit"}

\* the last-state entry written by the approve route of web.py
WebLastStateEntry(record) ==
  [timestamp |-> now, driver |-> record.driver, liters |-> record.liters,
   amount |-> record.amount, odometer |-> record.odometer,
   department |-> record.department]

\* web.py approve_record: POST /approvals/{id}/approve
approve_record(id, save_ok, o) ==
  LET a == approvals[IndexOf(approvals, id)]
      record == a.record
      stored == (o.db = "ok" \/ o.sheets)
      saves == DecisionMessage(id, save_ok) = "ok" /\ a.type \in WebSavedTypes
  IN
  /\ approvals' = approve_pending(id, save_ok)
  /\ IF saves THEN
       /\ store' = IF stored THEN Append(store, record) ELSE store
       /\ accepted' = IF stored THEN Append(accepted, Accepted(record, "approved"))
                      ELSE accepted
       /\ car_last_update' =
            IF record.car # NoPlate
            THEN SetKey(car_last_update, record.car, WebLastStateEntry(record))
            ELSE car_last_update
       /\ whatsapp' = Append(whatsapp,
                             WhatsApp(record.msg, "group", "FUEL REPORT APPROVED", 0))
     ELSE UNCHANGED <<store, accepted, car_last_update, whatsapp>>
  /\ UNCHANGED <<inflight, processed_message_ids, message_ids, inbox, processed,
                 now, files, saving, message, parsed, nextMsg, ALLOWED_PLATES, processor_py, validation_errors,
                 confirmations, efficiency_history, workbook, errors, outcome>>

\* web.py reject_record: POST /approvals/{id}/reject
reject_record(id, save_ok) ==
  /\ approvals' = reject_pending(id, save_ok)
  /\ whatsapp' = IF DecisionMessage(id, save_ok) = "ok"
                 THEN Append(whatsapp,
                        WhatsApp(RecordOf(id).msg, "group", "FUEL REPORT REJECTED", 0))
                 ELSE whatsapp
  /\ UNCHANGED <<inflight, processed_message_ids, message_ids, inbox, processed,
                 now, files, saving, message, parsed, nextMsg, ALLOWED_PLATES, processor_py, car_last_update, validation_errors,
                 confirmations, efficiency_history, workbook, store, errors, accepted,
                 outcome>>

ApprovePending == \E id \in ApprovalIds, save_ok \in BOOLEAN, o \in SaveOutcomes :
                     ApproveCommand(id, save_ok, o)
RejectPending == \E id \in ApprovalIds, save_ok \in BOOLEAN : RejectCommand(id, save_ok)
WebApprove == \E id \in ApprovalIds, save_ok \in BOOLEAN, o \in SaveOutcomes :
                 approve_record(id, save_ok, o)
WebReject == \E id \in ApprovalIds, save_ok \in BOOLEAN : reject_record(id, save_ok)

(****************************** the fleet list *****************************)
\* add_vehicle_to_fleet / remove_vehicle_from_fleet ('!add', '!remove')
add_vehicle_to_fleet(plate) ==
  /\ ALLOWED_PLATES' = ALLOWED_PLATES \cup {normalize_plate(plate)}
  /\ processor_py' = IF normalize_plate(plate) \in ALLOWED_PLATES THEN processor_py
                     ELSE processor_py \cup {normalize_plate(plate)}
  /\ UNCHANGED <<inflight, processed_message_ids, message_ids, inbox, processed,
                 now, files, saving, message, parsed, nextMsg, car_last_update, approvals, validation_errors, whatsapp,
                 confirmations, efficiency_history, workbook, store, errors, accepted,
                 outcome>>

remove_vehicle_from_fleet(plate) ==
  /\ ALLOWED_PLATES' = ALLOWED_PLATES \ {normalize_plate(plate)}
  /\ processor_py' = IF normalize_plate(plate) \notin ALLOWED_PLATES THEN processor_py
                     ELSE processor_py \ {normalize_plate(plate)}
  /\ UNCHANGED <<inflight, processed_message_ids, message_ids, inbox, processed,
                 now, files, saving, message, parsed, nextMsg, car_last_update, approvals, validation_errors, whatsapp,
                 confirmations, efficiency_history, workbook, store, errors, accepted,
                 outcome>>

CommandPlates == {KCA542Q, zzz_999z}

AddVehicle == \E plate \in CommandPlates : add_vehicle_to_fleet(plate)
RemoveVehicle == \E plate \in CommandPlates : remove_vehicle_from_fleet(plate)

(************************ dashboard maintenance: web.py *********************)
\* the age, in hours, past which cleanup_old_data drops a decided approval
CLEANUP_AGE_HOURS == 720

\* cleanup_old_data, POST /api/cleanup: the approvals it keeps
CleanedUp(list) ==
  SelectSeq(list, LAMBDA a : \/ a.status = "pending"
                             \/ a.timestamp > now - CLEANUP_AGE_HOURS)

cleanup_old_data ==
  /\ approvals' = CleanedUp(approvals)
  /\ UNCHANGED <<inflight, processed_message_ids, message_ids, inbox, processed,
                 now, files, saving, message, parsed, nextMsg, ALLOWED_PLATES, processor_py, car_last_update, validation_errors,
                 whatsapp, confirmations, efficiency_history, workbook, store,
                 errors, accepted, outcome>>

\* admin_clear_pending, POST /api/admin/clear-pending
admin_clear_pending ==
  /\ approvals' = << >>
  /\ UNCHANGED <<inflight, processed_message_ids, message_ids, inbox, processed,
                 now, files, saving, message, parsed, nextMsg, ALLOWED_PLATES, processor_py, car_last_update, validation_errors,
                 whatsapp, confirmations, efficiency_history, workbook, store,
                 errors, accepted, outcome>>

(********************************* the clock *******************************)
\* The hours at which something can happen: 2 and 10 hours apart (inside the
\* cooldown) and 12 hours apart or more (outside it).
TimePoints == {0, 2, MaxTime}

Tick == \E t \in TimePoints : /\ t > now
                             /\ now' = t
                             /\ UNCHANGED <<inflight, processed_message_ids, message_ids, inbox, processed,
                                            nextMsg, files, saving, message, parsed, ALLOWED_PLATES, processor_py, car_last_update,
                                  approvals, validation_errors, whatsapp, confirmations,
                                  efficiency_history, workbook, store, errors, accepted,
                                  outcome>>

\* a path of the file system: no file, or a file and the text it holds
NoFile == [exists |-> FALSE, content |-> << >>]
File(text) == [exists |-> TRUE, content |-> text]

\* json.dumps of what a state file holds, as its pieces of text: the list of
\* the entries with the first n ids
RECURSIVE Entries(_)
Entries(n) == IF n = 0 THEN << >>
              ELSE IF n = 1 THEN <<"1">>
              ELSE Entries(n - 1) \o <<",", CASE n = 2 -> "2" [] OTHER -> "3">>

Dumped(n) == <<"[">> \o Entries(n) \o <<"]">>

\* no call of safe_json_save is running
NotSaving == [pc |-> "idle", data |-> << >>, returned |-> "none", call |-> 0]

\* no text has been handed to the parser
NoMessage == << >>
NotParsed == [done |-> FALSE]

\* the stores and the clock at start-up
InitStores ==
  /\ processor_py = InitialFleet
  /\ files = [target |-> File(Dumped(1)), temp |-> NoFile]
  /\ saving = NotSaving
  /\ parsed = NotParsed
  /\ now = 0
  /\ nextMsg = 1
  /\ ALLOWED_PLATES = InitialFleet
  /\ car_last_update = << >>
  /\ approvals = << >>
  /\ validation_errors = << >>
  /\ whatsapp = << >>
  /\ confirmations = << >>
  /\ efficiency_history = << >>
  /\ workbook = << >>
  /\ store = << >>
  /\ errors = << >>
  /\ accepted = << >>
  /\ outcome = << >>
  /\ inflight = [h \in Handlers |-> << >>]
  /\ processed_message_ids = {}
  /\ message_ids = << >>
  /\ inbox = {}
  /\ processed = {}

Init == message = NoMessage /\ InitStores

Next ==
  \/ ProcessMessageFile
  \/ ProcessFuelReport
  \/ ApprovePending
  \/ RejectPending
  \/ WebApprove
  \/ WebReject
  \/ AddVehicle
  \/ RemoveVehicle
  \/ Tick

Spec == Init /\ [][Next]_vars

\* The webhook deployment alone (startup.py): reports arrive through the
\* webhook, decisions through the admin commands and the dashboard.
NextWebhook == \/ ProcessFuelReport
               \/ ApprovePending
               \/ RejectPending
               \/ WebApprove
               \/ WebReject
               \/ AddVehicle
               \/ RemoveVehicle
               \/ Tick

SpecWebhook == Init /\ [][NextWebhook]_vars

\* The approvals list over a longer run: one vehicle reporting the same
\* reading again and again through the webhook, every destination working,
\* decisions through the admin commands, the two maintenance routes of the
\* dashboard, and a clock that jumps past the cleanup age.
MaxRetentionReports == 5

RetentionParsed == {p \in CompleteParsed : p.car = KCA_542Q /\ p.odometer = 10000}

AllSaved == [db |-> "ok", sheets |-> TRUE, json |-> TRUE]

RetentionIds == 1..MaxRetentionReports

RetentionReport ==
  /\ nextMsg <= MaxRetentionReports
  /\ \E p \in RetentionParsed : process_fuel_report(p, AllSaved)
  /\ UNCHANGED <<inflight, processed_message_ids, message_ids>>

RetentionDecision ==
  \E id \in RetentionIds : \/ ApproveCommand(id, TRUE, AllSaved)
                            \/ RejectCommand(id, TRUE)

Age ==
  /\ now < CLEANUP_AGE_HOURS
  /\ now' = now + CLEANUP_AGE_HOURS
  /\ UNCHANGED <<inflight, processed_message_ids, message_ids, inbox, processed,
                 nextMsg, files, saving, message, parsed, ALLOWED_PLATES, processor_py, car_last_update, approvals,
                 validation_errors, whatsapp, confirmations, efficiency_history,
                 workbook, store, errors, accepted, outcome>>

NextRetention == \/ RetentionReport
                 \/ RetentionDecision
                 \/ cleanup_old_data
                 \/ admin_clear_pending
                 \/ Age

SpecRetention == Init /\ [][NextRetention]_vars


(******************************* the claims ********************************)
StatusOf(id) == approvals[IndexOf(approvals, id)].status

DecidedIds == {id \in ApprovalIds : HasApproval(approvals, id) /\ StatusOf(id) # "pending"}

\* the approvals list, the accepted-record stores and VehicleLastState
Kept == <<approvals, workbook, store, accepted, car_last_update>>

\* C1: for an approval that is already approved or rejected, every further
\* approve or reject call on its id (WhatsApp command or web route) returns
\* 'already processed' and leaves the approvals list, the accepted-record
\* stores and VehicleLastState as they are.
C1_ApprovalTerminal ==
  \A id \in DecidedIds :
    /\ \A save_ok \in BOOLEAN : DecisionMessage(id, save_ok) = "already processed"
    /\ \A save_ok \in BOOLEAN, o \in SaveOutcomes :
         /\ ~ENABLED (ApproveCommand(id, save_ok, o) /\ Kept' # Kept)
         /\ ~ENABLED (approve_record(id, save_ok, o) /\ Kept' # Kept)
         /\ ~ENABLED (RejectCommand(id, save_ok) /\ Kept' # Kept)
         /\ ~ENABLED (reject_record(id, save_ok) /\ Kept' # Kept)

\* C1 witness: an approved and then persisted approval is on the list
C1_Witness ==
  /\ DecidedIds # {}
  /\ \E i \in 1..Len(accepted) : accepted[i].via = "approved"

\* the acceptance-log entries written without an admin's approval
AutoAccepted == {i \in 1..Len(accepted) : accepted[i].via \in {"inbox", "webhook"}}

PlateOf(i) == accepted[i].record.car

\* the messages whose processing ended in the given result
MessagesWith(result) == {outcome[i].msg : i \in {j \in 1..Len(outcome) : outcome[j].result = result}}

C2_WitnessApart ==
  \E i \in AutoAccepted, j \in AutoAccepted :
     i < j /\ PlateOf(i) = PlateOf(j) /\ accepted[j].at - accepted[i].at = CAR_COOLDOWN_HOURS

\* C3: for each plate, the odometers of the accepted records (inbox, webhook
\* or admin approval) increase strictly in the order of acceptance. Stated
\* for the readings that are numbers, which is all the claim can compare.
C3_OdometerMonotonic ==
  \A i \in 1..Len(accepted), j \in 1..Len(accepted) :
     (/\ i < j /\ PlateOf(i) = PlateOf(j)
      /\ IsNumber(accepted[i].record.odometer)
      /\ IsNumber(accepted[j].record.odometer))
       => accepted[i].record.odometer < accepted[j].record.odometer

\* C3, the state that breaks it: a report accepted by the webhook path, then a
\* report of the same plate with a smaller odometer persisted by an approval
C3_RegressionApproved ==
  \E i \in 1..Len(accepted), j \in 1..Len(accepted) :
     /\ i < j /\ PlateOf(i) = PlateOf(j)
     /\ accepted[i].via = "webhook" /\ accepted[j].via = "approved"
     /\ IsNumber(accepted[j].record.odometer)
     /\ accepted[j].record.odometer < accepted[i].record.odometer

\* the record an acceptance step adds to the acceptance log
NewlyAccepted == accepted'[Len(accepted')]

\* the odometer of the plate's latest accepted record is below the
\* candidate's (for readings that are numbers)
AboveLastAccepted(record) ==
  \A i \in 1..Len(accepted) :
     (/\ accepted[i].record.car = record.car
      /\ \A k \in (i + 1)..Len(accepted) : accepted[k].record.car # record.car
      /\ IsNumber(accepted[i].record.odometer) /\ IsNumber(record.odometer))
       => accepted[i].record.odometer < record.odometer

\* C4: a record persisted after an admin's approval skipped only the cooldown
\* test: its plate is on the fleet list at that moment and its odometer is
\* above the plate's last accepted reading.
C4_ApprovedStillChecked ==
  [][(/\ Len(accepted') = Len(accepted) + 1
      /\ NewlyAccepted.via \in {"approved", "inbox_approved"})
       => /\ normalize_plate(NewlyAccepted.record.car) \in ALLOWED_PLATES
          /\ AboveLastAccepted(NewlyAccepted.record)]_vars

\* the result of the report a step has just processed ("" for other steps)
JustEnded ==
  IF Len(outcome') = Len(outcome) + 1 THEN outcome'[Len(outcome')].result ELSE ""

JustProcessed == outcome'[Len(outcome')].msg

\* the notices a step queued: inbox notification queue and group messages
NewNotices ==
  [i \in 1..(Len(validation_errors') - Len(validation_errors)) |->
     LET e == validation_errors'[Len(validation_errors) + i] IN
     [msg |-> e.msg, kind |-> e.issue, to_admins |-> e.is_approval_request,
      hours_remaining |-> e.hours_remaining]]
  \o [i \in 1..(Len(whatsapp') - Len(whatsapp)) |->
     LET w == whatsapp'[Len(whatsapp) + i] IN
     [msg |-> w.msg, kind |-> w.kind, to_admins |-> (w.to = "admins"),
      hours_remaining |-> w.hours_remaining]]

\* the approvals created for message m
ApprovalsOf(list, m) == SelectSeq(list, LAMBDA a : a.id = m)

RejectedWith(result, kinds) ==
  /\ JustEnded = result
  /\ Len(NewNotices) = 1
  /\ NewNotices[1].kind \in kinds
  /\ ~NewNotices[1].to_admins
  /\ UNCHANGED Kept

\* the reports that have every required field, for a plate on the fleet list,
\* with a positive number as odometer
CheckedReports ==
  {p \in ParserResults : /\ NumFields(p) >= 3
                         /\ missing_fields(p) = {}
                         /\ normalize_plate(p.car) \in ALLOWED_PLATES
                         /\ IsNumber(p.odometer) /\ p.odometer > 0}

\* the report's odometer is not above the reading the inbox path compares
\* with: the plate's last workbook row
InboxRegression(p) ==
  /\ get_last_odometer_for_car(p.car) # EmptyStr
  /\ p.odometer <= get_last_odometer_for_car(p.car)

\* ... and the reading the webhook path compares with: the plate's last state
WebhookRegression(p) ==
  /\ HasState(p.car)
  /\ IsNumber(get_car_last_update(p.car).odometer)
  /\ get_car_last_update(p.car).odometer > 0
  /\ p.odometer <= get_car_last_update(p.car).odometer

OdometerKinds == {"Odometer reading", "ODOMETER ERROR"}

\* how the two paths end for report p, whatever the workbook and the
\* destinations do
InboxEnds(p, isApproved) == {InboxDecision(p, isApproved, ok) : ok \in BOOLEAN}

WebhookEnds(p) == {WebhookDecision(p, o) : o \in SaveOutcomes}

\* a step that ends a report with an odometer error rejects it quietly
OdometerErrorStep ==
  JustEnded = "odometer_error" => RejectedWith("odometer_error", OdometerKinds)

FleetKinds == {"not in the approved fleet list", "VEHICLE NOT IN FLEET"}

\* the reports whose normalized plate is not on the fleet list
UnlistedReports == {p \in ParserResults : normalize_plate(p.car) \notin ALLOWED_PLATES}

\* C7: a report whose normalized plate is not on the fleet list when it is
\* processed is rejected on both paths: with the 'not in the approved fleet
\* list' error to the sender when its fields are complete (an incomplete one is
\* rejected before, for its fields); the rejecting step persists nothing,
\* creates no approval and leaves VehicleLastState alone.
C7_UnlistedPlateRejected ==
  /\ [](\A p \in UnlistedReports :
          /\ \A isApproved \in BOOLEAN :
               InboxEnds(p, isApproved) =
                 IF NumFields(p) < 3 THEN {"parse_failed"}
                 ELSE IF missing_fields(p) # {} THEN {"missing_fields"}
                 ELSE {"unauthorized"}
          /\ WebhookEnds(p) =
               IF NumFields(p) < 3 THEN {"parse_failed"}
               ELSE IF missing_fields(p) # {} THEN {"missing_fields"}
               ELSE {"unauthorized"})
  /\ [][/\ JustEnded = "unauthorized" => RejectedWith("unauthorized", FleetKinds)
        /\ JustEnded \in {"parse_failed", "missing_fields"} => UNCHANGED Kept]_vars

\* C7 witness: a plate that has a last state was taken off the fleet list and
\* its next report was turned down
C7_Witness ==
  /\ MessagesWith("unauthorized") # {}
  /\ \E plate \in Plates : HasState(plate) /\ plate \notin ALLOWED_PLATES
  /\ Len(accepted) = 1
  /\ approvals = << >>

\* how often the acceptance log holds this record
TimesAccepted(log, record) ==
  Cardinality({i \in 1..Len(log) : log[i].record = record})

\* the approvals that a step turns from pending into approved
JustApproved ==
  {k \in 1..Len(approvals) :
     /\ approvals[k].status = "pending"
     /\ \E j \in 1..Len(approvals') : /\ approvals'[j].id = approvals[k].id
                                      /\ approvals'[j].status = "approved"}

\* the plate's last state is the one written for this record
LastStateIs(state, record) ==
  /\ record.car \in DOMAIN state
  /\ state[record.car].timestamp = now
  /\ state[record.car].odometer = record.odometer
  /\ state[record.car].driver = record.driver
  /\ state[record.car].liters = record.liters
  /\ state[record.car].amount = record.amount

\* C8: approving a pending approval hands back the record stored at its
\* creation; every approval that becomes approved (command or web route) has
\* that record persisted exactly once and VehicleLastState of its plate
\* overwritten with it; the record of a rejected approval is never persisted.
C8_ApprovedPersistedOnce ==
  /\ [](\A k \in 1..Len(approvals) :
          /\ RecordOf(approvals[k].id) = approvals[k].record
          /\ TimesAccepted(accepted, approvals[k].record)
               = IF approvals[k].status = "approved" THEN 1 ELSE 0)
  /\ [][\A k \in JustApproved :
          /\ TimesAccepted(accepted', approvals[k].record) = 1
          /\ LastStateIs(car_last_update', approvals[k].record)]_vars

\* C8, the state that breaks it: an approval is approved, its plate's last
\* state was overwritten with its record, and no store holds the record
C8_ApprovedUnstored ==
  \E k \in 1..Len(approvals) :
     /\ approvals[k].status = "approved"
     /\ IsNumber(approvals[k].record.odometer)
     /\ LastStateIs(car_last_update, approvals[k].record)
     /\ \A i \in 1..Len(store) : store[i] # approvals[k].record
     /\ \A i \in 1..Len(workbook) : workbook[i] # approvals[k].record

\* the entries of the approvals list that a step removes
Removed == {k \in 1..Len(approvals) : ~HasApproval(approvals', approvals[k].id)}

DecidedOf(list) == SelectSeq(list, LAMBDA a : a.status # "pending")

\* a step of save_pending_approval that trims: the list was over the ceiling
\* and only decided entries went
TrimStep ==
  /\ JustEnded = "pending"
  /\ Len(approvals) + 1 > TrimCeiling
  /\ \A k \in Removed : approvals[k].status # "pending"

\* the decided entries kept are the most recently created ones
KeptMostRecent ==
  /\ Len(DecidedOf(approvals')) = TrimKeep
  /\ \A k \in Removed : \A j \in 1..Len(approvals') :
       approvals'[j].status # "pending" => approvals[k].id < approvals'[j].id

\* C9: entries leave the approvals list only through the trimming of
\* save_pending_approval, which drops decided entries oldest first once the
\* list is over the ceiling and keeps the most recent decided ones; no step
\* removes a pending entry.
C9_OnlyTrimmingRemoves ==
  [][Removed # {} => (TrimStep /\ KeptMostRecent)]_vars

\* C9, a state that breaks it: before any entry has reached the cleanup age,
\* the list still holds a decided entry while the entry of a later message,
\* approved after it was created, is gone
C9_NewerDroppedFirst ==
  /\ now < CLEANUP_AGE_HOURS
  /\ \E k \in 1..Len(approvals), i \in 1..Len(accepted) :
       /\ approvals[k].status # "pending"
       /\ accepted[i].via = "approved"
       /\ accepted[i].record.msg > approvals[k].id
       /\ ~HasApproval(approvals, accepted[i].record.msg)

\* the seven required fields of a stored record are present and non-empty
CompleteRecord(r) ==
  /\ r.department # "" /\ r.driver # "" /\ r.type # ""
  /\ StripSpaces(r.car) # << >>
  /\ Truthy(r.liters) /\ Truthy(r.amount) /\ Truthy(r.odometer)

\* every record that was persisted or put on the approvals list
KeptRecords ==
  {accepted[i].record : i \in 1..Len(accepted)}
    \cup {workbook[i] : i \in 1..Len(workbook)}
    \cup {store[i] : i \in 1..Len(store)}
    \cup {approvals[i].record : i \in 1..Len(approvals)}

\* the parser results with fewer than 3 fields or a required field missing
ShortReports == {p \in ParserResults : NumFields(p) < 3 \/ missing_fields(p) # {}}

\* C10: no record is persisted or put on the approvals list unless at least 3
\* fields were extracted and the 7 required fields are all present and
\* non-empty: a parser result that falls short, the lenient 2-field success
\* included, ends as a parse failure or as missing fields on both paths,
\* and such a step changes no store, no approval and no last state.
C10_OnlyCompleteRecords ==
  /\ [](/\ \A r \in KeptRecords : CompleteRecord(r)
        /\ \A p \in ShortReports :
             /\ \A isApproved \in BOOLEAN :
                  InboxEnds(p, isApproved) \subseteq {"parse_failed", "missing_fields"}
             /\ WebhookEnds(p) \subseteq {"parse_failed", "missing_fields"})
  /\ [][(JustEnded \in {"parse_failed", "missing_fields"}) => UNCHANGED Kept]_vars

\* C10 witness: a report with a missing field was turned down and a complete
\* one was accepted
C10_Witness ==
  /\ MessagesWith("missing_fields") # {}
  /\ Len(accepted) = 1
  /\ KeptRecords # {}

(******************** C11: numeric validity of accepted records ************)
\* a numeric field holding a number above zero
Positive(v) == IsNumber(v) /\ v > 0

NumericRecord(r) == Positive(r.liters) /\ Positive(r.amount) /\ Positive(r.odometer)

\* C11: every accepted record, every stored row and every vehicle last state
\* has numeric liters > 0, amount > 0 and odometer > 0: a report whose liters,
\* amount or odometer is zero or is not a valid number is never persisted and
\* never updates the last state.
C11_AcceptedNumeric ==
  /\ \A i \in 1..Len(accepted) : NumericRecord(accepted[i].record)
  /\ \A i \in 1..Len(workbook) : NumericRecord(workbook[i])
  /\ \A i \in 1..Len(store) : NumericRecord(store[i])
  /\ \A k \in DOMAIN car_last_update : NumericRecord(car_last_update[k])

\* C11: a report whose odometer is a digit string that is not a number
\* ('1.2.3') was accepted by the inbox processor, written to the workbook and
\* copied into the vehicle's last state
C11_NonNumericPersisted ==
  \E i \in 1..Len(accepted) :
    /\ accepted[i].via = "inbox"
    /\ accepted[i].record.odometer = BadNum
    /\ \E j \in 1..Len(workbook) : workbook[j] = accepted[i].record
    /\ car_last_update[accepted[i].record.car].odometer = BadNum

(************************ C12: unparseable messages ************************)
\* C12: every step that ends a message as a parse failure (fewer than 3
\* fields) or as missing required fields stores the message in the error
\* store with a reason, queues a sender-directed notice for it, and changes
\* no store, no approval and no last state.
C12_UnparseableTerminal ==
  [][(JustEnded \in {"parse_failed", "missing_fields"}) =>
       /\ Len(errors') = Len(errors) + 1
       /\ errors'[Len(errors')].msg = JustProcessed
       /\ errors'[Len(errors')].reason # ""
       /\ \E i \in 1..Len(NewNotices) :
            NewNotices[i].msg = JustProcessed /\ ~NewNotices[i].to_admins
       /\ UNCHANGED Kept]_vars

\* C12: the inbox processor moved a message with fewer than 3 fields to the
\* error store and nobody was told; the webhook turned a message down with a
\* notice to the sender and no entry in the error store
C12_SilentOrUnstored ==
  /\ \E i \in 1..Len(outcome) :
       /\ outcome[i].path = "inbox" /\ outcome[i].result = "parse_failed"
       /\ \E j \in 1..Len(errors) : errors[j].msg = outcome[i].msg
       /\ \A j \in 1..Len(validation_errors) : validation_errors[j].msg # outcome[i].msg
       /\ \A j \in 1..Len(whatsapp) : whatsapp[j].msg # outcome[i].msg
  /\ \E i \in 1..Len(outcome) :
       /\ outcome[i].path = "webhook" /\ outcome[i].result = "missing_fields"
       /\ \E j \in 1..Len(whatsapp) :
            whatsapp[j].msg = outcome[i].msg /\ whatsapp[j].to = "sender"
       /\ \A j \in 1..Len(errors) : errors[j].msg # outcome[i].msg

(******************** C13: the vehicle last-state store ********************)
\* admin_clear_cooldowns, POST /api/admin/clear-cooldowns: car_last_update.json
\* is rewritten as {}
admin_clear_cooldowns ==
  /\ car_last_update' = << >>
  /\ UNCHANGED <<inflight, processed_message_ids, message_ids, inbox, processed,
                 now, files, saving, message, parsed, nextMsg, ALLOWED_PLATES, processor_py, approvals, validation_errors,
                 whatsapp, confirmations, efficiency_history, workbook, store,
                 errors, accepted, outcome>>

\* both report paths, the approvals of both front ends and the dashboard's
\* clear-cooldowns button
NextLastState ==
  \/ ProcessMessageFile
  \/ ProcessFuelReport
  \/ ApprovePending
  \/ WebApprove
  \/ RejectPending
  \/ admin_clear_cooldowns
  \/ Tick

SpecLastState == Init /\ [][NextLastState]_vars

\* the entry of a plate, as a sequence of at most one element
EntryOf(f, k) == IF k \in DOMAIN f THEN <<f[k]>> ELSE << >>

\* the plates whose entry a step changes, creates or removes
ChangedPlates ==
  {k \in DOMAIN car_last_update \cup DOMAIN car_last_update' :
     EntryOf(car_last_update', k) # EntryOf(car_last_update, k)}

\* the entry written now from this record
HoldsRecord(entry, record) ==
  /\ entry.timestamp = now
  /\ entry.driver = record.driver
  /\ entry.liters = record.liters
  /\ entry.amount = record.amount
  /\ entry.odometer = record.odometer

\* the step accepted a report for plate k
AcceptedReportFor(k) ==
  /\ JustEnded = "accepted"
  /\ k \in DOMAIN car_last_update'
  /\ \E p \in ParserResults :
       /\ normalize_plate(p.car) = k
       /\ HoldsRecord(car_last_update'[k], p)

\* the step approved a pending record for plate k
ApprovedFor(k) ==
  /\ k \in DOMAIN car_last_update'
  /\ \E i \in 1..Len(approvals) :
       /\ Len(approvals') = Len(approvals)
       /\ approvals[i].status = "pending"
       /\ approvals'[i].status = "approved"
       /\ approvals[i].record.car = k
       /\ HoldsRecord(car_last_update'[k], approvals[i].record)

\* the step is the dashboard's clear-cooldowns: every entry goes, nothing else
\* changes
ClearedByAdmin ==
  /\ car_last_update' = << >>
  /\ UNCHANGED <<inflight, processed_message_ids, message_ids, inbox, processed,
                 now, files, saving, message, parsed, nextMsg, ALLOWED_PLATES, processor_py, approvals, validation_errors,
                 whatsapp, confirmations, efficiency_history, workbook, store,
                 errors, accepted, outcome>>

\* the keys of the store are normalized plates, so a plate has one entry
NormalizedKeys == \A k \in DOMAIN car_last_update : k = normalize_plate(k)

\* what every step does for the records it accepts and the reports it turns down
AcceptedOverwrites ==
  /\ Len(accepted') = Len(accepted) + 1 =>
       LET r == accepted'[Len(accepted')].record IN
       /\ r.car \in DOMAIN car_last_update'
       /\ HoldsRecord(car_last_update'[r.car], r)
  /\ (JustEnded \notin {"", "accepted"}) => UNCHANGED car_last_update

WebhookSaveStep ==
  /\ JustEnded \in {"accepted", "save_failed"}
  /\ outcome'[Len(outcome')].path = "webhook"
  /\ \A k \in DOMAIN car_last_update' : NumericRecord(car_last_update'[k])

\* the notices of the given kind a step sent for the report it processed
SentFor(kind) ==
  {i \in 1..Len(NewNotices) :
     NewNotices[i].msg = JustProcessed /\ NewNotices[i].kind = kind}

\* C14: the save of a webhook report is a success exactly when a destination
\* stored the record; on success the record is in the store, and when every
\* destination fails the sender is told to retry, the vehicle's last state is
\* not updated and no confirmation is sent.
C14_SuccessIffStored ==
  [][WebhookSaveStep =>
       /\ (JustEnded = "accepted") <=>
            /\ Len(store') = Len(store) + 1
            /\ store'[Len(store')].msg = JustProcessed
       /\ (Len(store') = Len(store)) =>
            /\ SentFor("FAILED TO SAVE RECORD") # {}
            /\ SentFor("FUEL REPORT LOGGED") = {}
            /\ UNCHANGED car_last_update]_vars

\* C14: a report was confirmed to the group and copied into the vehicle's
\* last state although no destination holds it
C14_ConfirmedUnstored ==
  \E i \in 1..Len(outcome) :
    /\ outcome[i].path = "webhook" /\ outcome[i].result = "accepted"
    /\ \A j \in 1..Len(store) : store[j].msg # outcome[i].msg
    /\ \E j \in 1..Len(whatsapp) :
         whatsapp[j].msg = outcome[i].msg /\ whatsapp[j].kind = "FUEL REPORT LOGGED"
    /\ \E k \in DOMAIN car_last_update : car_last_update[k].timestamp = now

(************** C15: the inbox processor beside the webhook ****************)
\* The inbox processor (processor.py, run by the scheduler) and the webhook
\* receiver are two processes over the same data files.  file_lock is held
\* inside one safe_json_load only and safe_json_save takes no lock, so each
\* handler is two steps here: its reads and checks, then its writes.

\* the reports of the two handlers: those naming the fleet's plate, with
\* numbers as readings
RaceParsed == {p \in ParserResults : p.car = KCA_542Q /\ p.odometer # BadNum}

\* the in-flight message of a handler
Idle(h) == inflight[h] = << >>
Task(h) == inflight[h][1]
Taken(h, p) == [inflight EXCEPT ![h] = <<[msg |-> nextMsg, p |-> p]>>]
Released(h) == [inflight EXCEPT ![h] = << >>]

\* process_message_file up to the cooldown check: a report that passes waits
\* for append_record, any other ends at once
begin_message_file(p) ==
  IF InboxDecision(p, FALSE, TRUE) \in {"accepted", "odometer_error"}
  THEN /\ inflight' = Taken("inbox", p)
       /\ nextMsg' = nextMsg + 1
       /\ UNCHANGED <<now, files, saving, message, parsed, ALLOWED_PLATES, processor_py, car_last_update, approvals,
                      validation_errors, whatsapp, confirmations,
                      efficiency_history, workbook, store, errors, accepted,
                      outcome, processed_message_ids, message_ids, inbox, processed>>
  ELSE /\ process_message_file(p, FALSE, TRUE)
       /\ UNCHANGED <<message_ids, inbox, processed>>

\* process_message_file from append_record on: the odometer check against the
\* workbook, the row, the efficiency and the last state as they are now
finish_message_file ==
  LET m == Task("inbox").msg
      raw == MakeRecord(m, Task("inbox").p)
      record == [raw EXCEPT !.car = normalize_plate(raw.car)]
      eff == RecordEfficiency(record)
      alert == EfficiencyAlert(eff)
      ok == validate_odometer(record)
  IN
  /\ inflight' = Released("inbox")
  /\ outcome' = Append(outcome,
                  Outcome(m, "inbox", IF ok THEN "accepted" ELSE "odometer_error"))
  /\ errors' = IF ok THEN errors
               ELSE Append(errors, [msg |-> m, reason |-> "odometer_error"])
  /\ validation_errors' =
       IF ~ok THEN Append(validation_errors,
                          ValidationError(record, "Odometer reading", FALSE, 0))
       ELSE IF alert # "" THEN Append(validation_errors,
                                      ValidationError(record, alert, TRUE, 0))
       ELSE validation_errors
  /\ workbook' = IF ok THEN Append(workbook, record) ELSE workbook
  /\ accepted' = IF ok THEN Append(accepted, Accepted(record, "inbox")) ELSE accepted
  /\ efficiency_history' =
       IF ok /\ eff # NoEfficiency
       THEN Append(efficiency_history,
              [msg |-> m, car |-> record.car, distance |-> eff[1], liters |-> eff[2]])
       ELSE efficiency_history
  /\ car_last_update' = IF ok THEN update_car_last_update(record.car, record, eff)
                        ELSE car_last_update
  /\ confirmations' = IF ok THEN Append(confirmations, [msg |-> m, efficiency |-> eff])
                      ELSE confirmations
  /\ UNCHANGED <<now, files, saving, message, parsed, nextMsg, ALLOWED_PLATES, processor_py, approvals, whatsapp, store,
                 processed_message_ids, message_ids, inbox, processed>>

\* process_fuel_report up to the odometer check: a report that passes waits
\* for the save, any other ends at once
begin_fuel_report(p) ==
  IF WebhookDecision(p, AllSaved) = "accepted"
  THEN /\ inflight' = Taken("webhook", p)
       /\ nextMsg' = nextMsg + 1
       /\ UNCHANGED <<now, files, saving, message, parsed, ALLOWED_PLATES, processor_py, car_last_update, approvals,
                      validation_errors, whatsapp, confirmations,
                      efficiency_history, workbook, store, errors, accepted,
                      outcome, processed_message_ids, message_ids, inbox, processed>>
  ELSE /\ process_fuel_report(p, AllSaved)
       /\ UNCHANGED <<inflight, processed_message_ids, message_ids>>

\* process_fuel_report from the save on
finish_fuel_report(o) ==
  LET m == Task("webhook").msg
      raw == MakeRecord(m, Task("webhook").p)
      record == [raw EXCEPT !.car = normalize_plate(raw.car)]
      success == SavedTo(o) # {}
      stored == success /\ StoredIn(o) # {}
  IN
  /\ inflight' = Released("webhook")
  /\ outcome' = Append(outcome,
                  Outcome(m, "webhook", IF success THEN "accepted" ELSE "save_failed"))
  /\ whatsapp' = Append(whatsapp,
       IF success THEN WhatsApp(m, "group", "FUEL REPORT LOGGED", 0)
       ELSE WhatsApp(m, "sender", "FAILED TO SAVE RECORD", 0))
  /\ store' = IF stored THEN Append(store, record) ELSE store
  /\ accepted' = IF stored THEN Append(accepted, Accepted(record, "webhook")) ELSE accepted
  /\ car_last_update' = IF success
                        THEN update_car_last_update(record.car, record, NoEfficiency)
                        ELSE car_last_update
  /\ UNCHANGED <<now, files, saving, message, parsed, nextMsg, ALLOWED_PLATES, processor_py, approvals, validation_errors,
                 confirmations, efficiency_history, workbook, errors,
                 processed_message_ids, message_ids, inbox, processed>>

BeginMessageFile ==
  /\ nextMsg <= MaxReports
  /\ Idle("inbox")
  /\ \E p \in RaceParsed : begin_message_file(p)

FinishMessageFile == ~Idle("inbox") /\ finish_message_file

BeginFuelReport ==
  /\ nextMsg <= MaxReports
  /\ Idle("webhook")
  /\ \E p \in RaceParsed : begin_fuel_report(p)

FinishFuelReport == ~Idle("webhook") /\ \E o \in SaveOutcomes : finish_fuel_report(o)

NextRace ==
  \/ BeginMessageFile
  \/ FinishMessageFile
  \/ BeginFuelReport
  \/ FinishFuelReport
  \/ Tick

SpecRace == Init /\ [][NextRace]_vars

\* C15: two reports for one plate handled at the same time by the inbox
\* processor and the webhook are not both accepted against the same prior
\* state: of any two records of a plate accepted without an approval, the
\* later one was accepted 12 hours or more after the earlier one.
C15_NoDoubleAccept ==
  \A i, j \in 1..Len(accepted) :
     (/\ i < j
      /\ accepted[i].record.car = accepted[j].record.car
      /\ accepted[i].via \in {"inbox", "webhook"}
      /\ accepted[j].via \in {"inbox", "webhook"})
       => accepted[j].at - accepted[i].at >= CAR_COOLDOWN_HOURS

\* C15: the inbox processor and the webhook each accepted a report for the
\* same plate in the same hour, and no approval was asked for
C15_DoubleAccepted ==
  /\ Len(accepted) = 2
  /\ accepted[1].record.car = accepted[2].record.car
  /\ {accepted[1].via, accepted[2].via} = {"inbox", "webhook"}
  /\ accepted[1].at = accepted[2].at
  /\ approvals = << >>
  /\ \A h \in Handlers : Idle(h)

(************************ C16: scans of the inbox **************************)
MaxFiles == 2        \* message files the listener writes over a run
MaxScanRuns == 3     \* files handled by process_all_messages over a run

\* what a message file holds: the report its body parses to, its isApproved
\* flag, and whether the file is JSON that json.load accepts
InboxParsed == {p \in ParserResults : p.car = KCA_542Q}

\* the files that were processed at least once
Scanned == {message_ids[i] : i \in 1..Len(message_ids)}

\* the files written so far
Arrived == {t.file : t \in inbox} \cup Scanned

\* the listener writes msg_<n>.json into data/raw_messages
Arrive ==
  /\ Cardinality(Arrived) < MaxFiles
  /\ \E p \in InboxParsed, isApproved \in BOOLEAN, valid_json \in BOOLEAN :
       inbox' = inbox \cup {[file |-> Cardinality(Arrived) + 1, p |-> p,
                             isApproved |-> isApproved, valid_json |-> valid_json]}
  /\ UNCHANGED <<now, files, saving, message, parsed, nextMsg, ALLOWED_PLATES, processor_py, car_last_update, approvals,
                 validation_errors, whatsapp, confirmations, efficiency_history,
                 workbook, store, errors, accepted, outcome, inflight,
                 processed_message_ids, message_ids, processed>>

\* move_to_processed / move_to_errors after process_message_file returned
\* True: the file leaves the inbox
Moved(t, d) ==
  /\ inbox' = inbox \ {t}
  /\ processed' = IF d = "accepted" THEN processed \cup {t.file} ELSE processed
  /\ message_ids' = Append(message_ids, t.file)

\* one turn of the loop of process_all_messages over a file of the inbox
scan_file(t, excel_ok) ==
  IF ~t.valid_json
  THEN \* json.load raises in process_message_file, and again in
       \* move_to_errors, which logs it: the file stays, True is returned
       /\ outcome' = Append(outcome, Outcome(nextMsg, "inbox", "invalid_json"))
       /\ nextMsg' = nextMsg + 1
       /\ message_ids' = Append(message_ids, t.file)
       /\ UNCHANGED <<now, files, saving, message, parsed, ALLOWED_PLATES, processor_py, car_last_update, approvals,
                      validation_errors, whatsapp, confirmations,
                      efficiency_history, workbook, store, errors, accepted,
                      inflight, processed_message_ids, inbox, processed>>
  ELSE /\ process_message_file(t.p, t.isApproved, excel_ok)
       /\ IF InboxDecision(t.p, t.isApproved, excel_ok) = "retry"
          THEN UNCHANGED <<inbox, processed, message_ids>>
          ELSE Moved(t, InboxDecision(t.p, t.isApproved, excel_ok))

ScanFile ==
  /\ nextMsg <= MaxScanRuns
  /\ \E t \in inbox, excel_ok \in BOOLEAN : scan_file(t, excel_ok)

NextInbox ==
  \/ Arrive
  \/ ScanFile
  \/ Tick

SpecInbox == Init /\ [][NextInbox]_vars

\* the records persisted for a file
RecordsOf(f) ==
  {i \in 1..Len(accepted) : message_ids[accepted[i].record.msg] = f}

\* C16: over any number of scans each inbox file reaches at most one terminal
\* outcome and gives at most one persisted record, and a file that has been
\* processed is out of the inbox, so that no later scan picks it up.
C16_ProcessedOnce ==
  /\ \A i, j \in 1..Len(message_ids) : i # j => message_ids[i] # message_ids[j]
  /\ \A f \in Scanned : Cardinality(RecordsOf(f)) <= 1
  /\ \A t \in inbox : t.file \notin Scanned

\* C16: a file was processed by two scans and is still in the inbox
C16_ScannedTwice ==
  \E t \in inbox :
    Cardinality({i \in 1..Len(message_ids) : message_ids[i] = t.file}) >= 2

\* C16 for the files that json.load accepts
C16_WellFormedOnce ==
  /\ \A i, j \in 1..Len(message_ids) :
       (i # j /\ outcome[i].result # "invalid_json") => message_ids[i] # message_ids[j]
  /\ \A f \in Scanned : Cardinality(RecordsOf(f)) <= 1
  /\ \A t \in inbox : t.valid_json => t.file \notin Scanned

(********************* C17: message deduplication **************************)
MaxMessages == 2     \* WhatsApp messages of the group over a run

\* the ids of the group's messages; all of them are fuel reports
MessageIds == 1..MaxMessages

\* what the text of a message parses to: the same report for message 1
\* whenever it is delivered or fetched, another one for the others
MessageParsed(id) ==
  [BaseParsed EXCEPT !.odometer = IF id = 1 THEN 10000 ELSE 10400]

\* MessageSyncManager.is_message_processed: a marker file carries the id
is_message_processed(id) == id \in processed_message_ids

\* MessageSyncManager.mark_message_processed
mark_message_processed(id) == processed_message_ids \cup {id}

\* evolution_webhook for a messages.upsert event of a group message that is a
\* fuel report: the id is tested and marked, then the report is processed
evolution_webhook(id, o) ==
  IF is_message_processed(id)
  THEN UNCHANGED vars
  ELSE /\ processed_message_ids' = mark_message_processed(id)
       /\ process_fuel_report(MessageParsed(id), o)
       /\ message_ids' = Append(message_ids, id)
       /\ UNCHANGED inflight

\* fetch_missed_messages, one message of the fetched history: the id is
\* tested, the callback processes the report and is awaited ...
sync_process(id, o) ==
  /\ ~is_message_processed(id)
  /\ process_fuel_report(MessageParsed(id), o)
  /\ message_ids' = Append(message_ids, id)
  /\ inflight' = [inflight EXCEPT !["sync"] = <<[msg |-> id, p |-> MessageParsed(id)]>>]
  /\ UNCHANGED processed_message_ids

\* ... and the id is marked once the callback has returned
sync_mark ==
  /\ processed_message_ids' = mark_message_processed(Task("sync").msg)
  /\ inflight' = Released("sync")
  /\ UNCHANGED <<now, files, saving, message, parsed, nextMsg, ALLOWED_PLATES, processor_py, car_last_update, approvals,
                 validation_errors, whatsapp, confirmations, efficiency_history,
                 workbook, store, errors, accepted, outcome, message_ids, inbox,
                 processed>>

Deliver ==
  /\ nextMsg <= MaxReports
  /\ \E id \in MessageIds, o \in SaveOutcomes : evolution_webhook(id, o)

SyncProcess ==
  /\ nextMsg <= MaxReports
  /\ Idle("sync")
  /\ \E id \in MessageIds, o \in SaveOutcomes : sync_process(id, o)

SyncMark == ~Idle("sync") /\ sync_mark

NextSync ==
  \/ Deliver
  \/ SyncProcess
  \/ SyncMark
  \/ Tick

SpecSync == Init /\ [][NextSync]_vars

\* C17: no WhatsApp message id is processed as a fuel report more than once,
\* whatever the order of webhook deliveries and history-sync steps.
C17_ProcessedOnce ==
  \A i, j \in 1..Len(message_ids) : i # j => message_ids[i] # message_ids[j]

\* C17: one message was processed by the history sync and again by the
\* webhook, which left a stored record and a pending approval for it
C17_ProcessedTwice ==
  /\ Len(message_ids) = 2
  /\ message_ids[1] = message_ids[2]
  /\ outcome[1].result = "accepted"
  /\ outcome[2].result = "pending"
  /\ Len(approvals) = 1

(********************** C18 - C20: fuel efficiency *************************)
MaxEfficiencyReports == 3   \* reports of the efficiency runs

\* odometer readings that give, after 10000 km and 20 L, 2.5, 4.0, 20.0 and
\* 25.0 km/L
EfficiencyOdometers == {10000, 10050, 10080, 10400, 10500}

\* the reports of the efficiency runs: one plate, 20 L a fill-up or 45 L at
\* the higher readings, and the reports with an odd odometer
EfficiencyParsed ==
  {[BaseParsed EXCEPT !.odometer = km] : km \in EfficiencyOdometers}
    \cup {[BaseParsed EXCEPT !.odometer = km, !.liters = 45] : km \in {10080, 10400}}
    \cup OddParsed

\* the inbox processor over these reports; approved messages skip the cooldown
EfficiencyReport ==
  /\ nextMsg <= MaxEfficiencyReports
  /\ \E p \in EfficiencyParsed, isApproved \in BOOLEAN :
       process_message_file(p, isApproved, TRUE)
  /\ UNCHANGED <<message_ids, inbox, processed>>

NextEfficiency ==
  \/ EfficiencyReport
  \/ Tick

SpecEfficiency == Init /\ [][NextEfficiency]_vars

\* C18: for a plate whose last state has odometer > 0 and liters > 0 and a
\* current odometer above it, calculate_fuel_efficiency returns
\* (current - previous odometer) / previous liters, with a low alert exactly
\* below 4.0 km/L, a high alert exactly above 20.0 km/L and no alert from 4.0
\* to 20.0; 10000 km and 20 L followed by 10400 km give 20.0 and no alert.
C18_EfficiencyFormula ==
  \A plate \in DOMAIN car_last_update, current \in EfficiencyOdometers :
    LET lu == car_last_update[plate]
        e == calculate_fuel_efficiency(plate, current)
        d == current - lu.odometer
    IN
    (Positive(lu.odometer) /\ Positive(lu.liters) /\ current > lu.odometer) =>
      /\ e = <<d, lu.liters>>
      /\ (EfficiencyAlert(e) = "low_efficiency") <=> (d < 4 * lu.liters)
      /\ (EfficiencyAlert(e) = "high_efficiency") <=> (d > 20 * lu.liters)
      /\ (d >= 4 * lu.liters /\ d <= 20 * lu.liters) => EfficiencyAlert(e) = ""
      /\ (lu.odometer = 10000 /\ lu.liters = 20 /\ current = 10400) =>
           (e = <<400, 20>> /\ EfficiencyAlert(e) = "")

\* C18 witness: after 10000 km and 20 L a report with 10400 km was accepted
\* with 400 km over 20 L, which is 20.0 km/L, and no alert was queued
C18_Witness ==
  /\ Len(accepted) = 2
  /\ accepted[1].record.odometer = 10000 /\ accepted[1].record.liters = 20
  /\ accepted[2].record.odometer = 10400
  /\ Len(efficiency_history) = 1
  /\ efficiency_history[1].distance = 400 /\ efficiency_history[1].liters = 20
  /\ validation_errors = << >>

\* the efficiency records a step appends
NewEfficiencyRecords == Len(efficiency_history') - Len(efficiency_history)

\* C19: an efficiency record is appended only by a step that accepts a record
\* for a plate whose last state, as it stands before the step, has a positive
\* odometer and positive liters and an odometer below the record's; the
\* distance is the difference to that odometer and the liters are those of
\* that state.  A record accepted for a plate without a last state gets no
\* efficiency figure, no efficiency record and no alert.
C19_EfficiencyRecordFromPriorState ==
  [][/\ NewEfficiencyRecords \in {0, 1}
     /\ NewEfficiencyRecords = 1 =>
          /\ JustEnded = "accepted"
          /\ Len(accepted') = Len(accepted) + 1
          /\ LET r == NewlyAccepted.record
                 h == efficiency_history'[Len(efficiency_history')]
             IN
             /\ h.msg = r.msg /\ h.car = r.car
             /\ r.car \in DOMAIN car_last_update
             /\ Positive(car_last_update[r.car].odometer)
             /\ Positive(car_last_update[r.car].liters)
             /\ r.odometer > car_last_update[r.car].odometer
             /\ h.distance = r.odometer - car_last_update[r.car].odometer
             /\ h.liters = car_last_update[r.car].liters
     /\ (JustEnded = "accepted" /\ Len(accepted') = Len(accepted) + 1
         /\ NewlyAccepted.record.car \notin DOMAIN car_last_update) =>
          /\ NewEfficiencyRecords = 0
          /\ car_last_update'[NewlyAccepted.record.car].efficiency = NoEfficiency
          /\ confirmations'[Len(confirmations')].efficiency = NoEfficiency
          /\ NewNotices = << >>]_vars

\* C19 witness: a 45 L fill-up at 10400 km was accepted after a 20 L fill-up
\* at 10000 km; the efficiency record holds 400 km and the 20 L of the
\* earlier state, and the plate's state now holds 45 L
C19_Witness ==
  /\ Len(accepted) = 2
  /\ accepted[1].record.liters = 20 /\ accepted[1].record.odometer = 10000
  /\ accepted[2].record.liters = 45 /\ accepted[2].record.odometer = 10400
  /\ Len(efficiency_history) = 1
  /\ efficiency_history[1].msg = accepted[2].record.msg
  /\ efficiency_history[1].distance = 400
  /\ efficiency_history[1].liters = 20
  /\ car_last_update[accepted[2].record.car].liters = 45

AlertKinds == {"low_efficiency", "high_efficiency"}

\* the efficiency alerts in the notification queue
QueuedAlerts ==
  {i \in 1..Len(validation_errors) : validation_errors[i].issue \in AlertKinds}

\* C20: an efficiency alert is queued only by the step that accepts the
\* report it is about: the step writes the report's row, copies the report
\* into the vehicle's last state and queues the sender's confirmation, the
\* alert is addressed to the admins, and nothing goes to the error store; so
\* every alert in the queue belongs to a persisted and confirmed report.
C20_AlertNeverRejects ==
  /\ [](\A i \in QueuedAlerts :
          LET m == validation_errors[i].msg IN
          /\ validation_errors[i].is_approval_request
          /\ \E j \in 1..Len(workbook) : workbook[j].msg = m
          /\ \E j \in 1..Len(confirmations) : confirmations[j].msg = m
          /\ \E j \in 1..Len(outcome) :
               outcome[j].msg = m /\ outcome[j].result = "accepted"
          /\ \A j \in 1..Len(errors) : errors[j].msg # m)
  /\ [][\A i \in 1..Len(NewNotices) :
          NewNotices[i].kind \in AlertKinds =>
            /\ NewNotices[i].to_admins
            /\ Len(NewNotices) = 1
            /\ JustEnded = "accepted"
            /\ NewNotices[i].msg = JustProcessed
            /\ Len(workbook') = Len(workbook) + 1
            /\ workbook'[Len(workbook')].msg = JustProcessed
            /\ NewlyAccepted.record = workbook'[Len(workbook')]
            /\ HoldsRecord(car_last_update'[NewlyAccepted.record.car],
                           NewlyAccepted.record)
            /\ Len(confirmations') = Len(confirmations) + 1
            /\ confirmations'[Len(confirmations')].msg = JustProcessed
            /\ errors' = errors]_vars

\* C20 witness: a low and a high alert are queued for the admins, and both
\* reports are in the workbook with their confirmations queued
C20_Witness ==
  /\ \E i \in QueuedAlerts : validation_errors[i].issue = "low_efficiency"
  /\ \E i \in QueuedAlerts : validation_errors[i].issue = "high_efficiency"
  /\ Len(workbook) = 3
  /\ Len(confirmations) = 3
  /\ errors = << >>

(******************** C21: safe_json_save, step by step ********************)
MaxSaves == 2        \* calls of safe_json_save over a run
MaxEntries == 3      \* entries of the longest list that is saved

\* temp_path = filepath.with_suffix('.json.tmp'): the path json.dump writes to
WritePath_Target == "target"

WritePath == "temp"

SaveFrame ==
  UNCHANGED <<now, nextMsg, ALLOWED_PLATES, car_last_update, approvals,
              validation_errors, whatsapp, confirmations, efficiency_history,
              workbook, store, errors, accepted, outcome, inflight,
              processed_message_ids, message_ids, inbox, processed,
              processor_py, message, parsed>>

\* a caller enters safe_json_save(filepath, data); an earlier call has
\* returned, or its process was killed and another one was started
safe_json_save(n) ==
  /\ saving.pc \in {"idle", "returned", "killed"}
  /\ saving.call < MaxSaves
  /\ saving' = [pc |-> "open", data |-> Dumped(n), returned |-> "none",
                call |-> saving.call + 1]
  /\ UNCHANGED files
  /\ SaveFrame

\* open(temp_path, 'w'): the file is created, or emptied if it was there
save_open ==
  /\ saving.pc = "open"
  /\ files' = [files EXCEPT ![WritePath] = File(<< >>)]
  /\ saving' = [saving EXCEPT !.pc = "write"]
  /\ SaveFrame

\* json.dump(data, f): one more piece of the text reaches the file; after
\* the last one the with block closes the file
save_write ==
  /\ saving.pc = "write"
  /\ LET text == files[WritePath].content
         next == Append(text, saving.data[Len(text) + 1])
     IN /\ files' = [files EXCEPT ![WritePath] = File(next)]
        /\ saving' = [saving EXCEPT !.pc = IF next = saving.data THEN "rename"
                                           ELSE "write"]
  /\ SaveFrame

\* temp_path.rename(filepath), then return True
save_rename ==
  /\ saving.pc = "rename"
  /\ files' = [p \in {"target", "temp"} |->
                 IF p = "target" THEN files[WritePath] ELSE NoFile]
  /\ saving' = [saving EXCEPT !.pc = "returned", !.returned = "True"]
  /\ SaveFrame

\* open, json.dump, the close or the rename raises: the except clause removes
\* the temporary file if there is one and returns False
save_except ==
  /\ saving.pc \in {"open", "write", "rename"}
  /\ files' = [files EXCEPT !.temp = NoFile]
  /\ saving' = [saving EXCEPT !.pc = "returned", !.returned = "False"]
  /\ SaveFrame

\* the process is killed inside the call
save_killed ==
  /\ saving.pc \in {"open", "write", "rename"}
  /\ saving' = [saving EXCEPT !.pc = "killed"]
  /\ UNCHANGED files
  /\ SaveFrame

SafeJsonSave == \E n \in 0..MaxEntries : safe_json_save(n)

NextSave ==
  \/ SafeJsonSave
  \/ save_open
  \/ save_write
  \/ save_rename
  \/ save_except
  \/ save_killed

SpecSave == Init /\ [][NextSave]_vars

\* the texts json.loads accepts
CompleteTexts == {Dumped(n) : n \in 0..MaxEntries}

C21_WitnessFailed ==
  /\ saving.returned = "False"
  /\ saving.data = Dumped(3)
  /\ files.target = File(Dumped(1))

(*********************** C22: approved edits *******************************)
MaxEditSteps == 4    \* reports, edit requests and edit messages over a run

\* the reports and the edited reports: one plate, two readings
EditParsed == {p \in CompleteParsed : p.car = KCA_542Q}

\* a datetime that no row of the workbook carries
OtherDatetime == MaxEditSteps + 1

\* the inbox processor over plain reports
EditReport ==
  /\ nextMsg <= MaxEditSteps
  /\ \E p \in EditParsed : process_message_file(p, FALSE, TRUE)
  /\ UNCHANGED <<message_ids, inbox, processed>>

\* The listener saves an edit request: the edited record and the record it
\* replaces, which is a row of the workbook or a record with another datetime.
RequestEdit ==
  /\ nextMsg <= MaxEditSteps
  /\ \E p \in EditParsed,
        orig \in {workbook[i] : i \in 1..Len(workbook)}
                   \cup {MakeRecord(OtherDatetime, [BaseParsed EXCEPT !.car = KCA542Q])} :
       approvals' = save_pending_approval("edit",
                      MakeRecord(nextMsg, [p EXCEPT !.car = normalize_plate(p.car)]),
                      orig, 0)
  /\ nextMsg' = nextMsg + 1
  /\ UNCHANGED <<now, files, saving, message, parsed, ALLOWED_PLATES, processor_py,
                 car_last_update, validation_errors, whatsapp, confirmations,
                 efficiency_history, workbook, store, errors, accepted, outcome,
                 inflight, processed_message_ids, message_ids, inbox, processed>>

\* the edit requests of the approvals list
EditIds == {approvals[i].id : i \in {j \in 1..Len(approvals) : approvals[j].type = "edit"}}

\* the original record process_message_file finds for originalApprovalId
OriginalOf(id) == approvals[IndexOf(approvals, id)].original_record

\* update_record: the first row with the original datetime and plate
MatchingRows(rows, orig) ==
  {i \in 1..Len(rows) : /\ rows[i].msg = orig.msg
                        /\ normalize_plate(rows[i].car) = normalize_plate(orig.car)}

FirstMatch(rows, orig) ==
  CHOOSE i \in MatchingRows(rows, orig) : \A j \in MatchingRows(rows, orig) : i <= j

update_record(orig, new_record) ==
  [workbook EXCEPT ![FirstMatch(workbook, orig)] = new_record]

\* process_message_file for a message with approvalType 'edit' and the id of
\* an edit request: past the required fields, the fleet list and the cooldown
\* the row of the original record is rewritten; without the request or the
\* row, or when the workbook cannot be written, the record goes to append_record
process_edit_file(id, p, isApproved, excel_ok) ==
  LET m == nextMsg
      raw == MakeRecord(m, p)
      record == [raw EXCEPT !.car = normalize_plate(raw.car)]
      eff == RecordEfficiency(record)
      alert == EfficiencyAlert(eff)
      updates == /\ InboxDecision(p, isApproved, TRUE) \in {"accepted", "odometer_error"}
                 /\ HasApproval(approvals, id)
                 /\ "msg" \in DOMAIN OriginalOf(id)    \* orig.get('datetime', '')
                 /\ MatchingRows(workbook, OriginalOf(id)) # {}
                 /\ excel_ok
  IN
  IF updates
  THEN /\ workbook' = update_record(OriginalOf(id), record)
       /\ nextMsg' = nextMsg + 1
       /\ outcome' = Append(outcome, Outcome(m, "inbox", "accepted"))
       /\ accepted' = Append(accepted, Accepted(record, "inbox_edit"))
       /\ validation_errors' =
            IF alert # "" THEN Append(validation_errors,
                                      ValidationError(record, alert, TRUE, 0))
            ELSE validation_errors
       /\ efficiency_history' =
            IF eff # NoEfficiency
            THEN Append(efficiency_history,
                   [msg |-> m, car |-> record.car, distance |-> eff[1], liters |-> eff[2]])
            ELSE efficiency_history
       /\ car_last_update' = update_car_last_update(record.car, record, eff)
       /\ confirmations' = Append(confirmations, [msg |-> m, efficiency |-> eff])
       /\ UNCHANGED <<now, files, saving, message, parsed, ALLOWED_PLATES,
                      processor_py, approvals, whatsapp, store, errors, inflight,
                      processed_message_ids>>
  ELSE process_message_file(p, isApproved, excel_ok)

ProcessEdit ==
  /\ nextMsg <= MaxEditSteps
  /\ \E id \in ApprovalIds \cup EditIds, p \in EditParsed, excel_ok \in BOOLEAN :
       process_edit_file(id, p, TRUE, excel_ok)
  /\ UNCHANGED <<message_ids, inbox, processed>>

NextEdit ==
  \/ EditReport
  \/ RequestEdit
  \/ ProcessEdit
  \/ admin_clear_pending

SpecEdit == Init /\ [][NextEdit]_vars

\* the record process_message_file builds for the edit message
EditedRecord(p) == MakeRecord(nextMsg, [p EXCEPT !.car = normalize_plate(p.car)])

\* C22: when the processor handles an approved edit whose original record
\* (original datetime and plate) is a row of the workbook, that row is
\* replaced by the new record and the number of rows is unchanged; when no
\* row matches, the new record is inserted, adding exactly one row.
C22_EditReplacesOrInserts ==
  [][\A id \in EditIds, p \in EditParsed :
       process_edit_file(id, p, TRUE, TRUE) =>
         IF MatchingRows(workbook, OriginalOf(id)) # {}
         THEN /\ Len(workbook') = Len(workbook)
              /\ workbook'[FirstMatch(workbook, OriginalOf(id))] = EditedRecord(p)
         ELSE workbook' = Append(workbook, EditedRecord(p))]_vars

\* C22: an edit whose original record matches no row was handled and refused
\* by the odometer check of append_record: the workbook holds one row, none
\* of them the edited record
C22_EditRefused ==
  /\ Len(workbook) = 1
  /\ Len(outcome) = 2
  /\ outcome[2].result = "odometer_error"
  /\ \E i \in 1..Len(approvals) :
       /\ approvals[i].type = "edit"
       /\ approvals[i].id < outcome[2].msg
       /\ MatchingRows(workbook, approvals[i].original_record) = {}

\* C22: the edit request was cleared before its message was handled: the new
\* record was appended although the row of the original record is there
C22_EditAppendedBesideOriginal ==
  /\ Len(workbook) = 2
  /\ Len(accepted) = 2
  /\ accepted[2].via = "inbox_approved"
  /\ approvals = << >>
  /\ workbook[1].odometer < workbook[2].odometer

\* C22 for the edits whose original record is a row of the workbook
C22_MatchedRowReplaced ==
  [][\A id \in EditIds, p \in EditParsed :
       (process_edit_file(id, p, TRUE, TRUE)
          /\ MatchingRows(workbook, OriginalOf(id)) # {}) =>
         /\ Len(workbook') = Len(workbook)
         /\ workbook'[FirstMatch(workbook, OriginalOf(id))] = EditedRecord(p)]_vars

(********************* C23: the fleet list, two doors **********************)
\* data.get('plate', '').upper().replace(' ', '') of the dashboard routes
RECURSIVE DropBlanks(_)
DropBlanks(s) ==
  IF s = << >> THEN << >>
  ELSE IF Head(s) = " " THEN DropBlanks(Tail(s))
       ELSE <<Head(s)>> \o DropBlanks(Tail(s))

WebPlate(plate) == LET t == DropBlanks(plate) IN [i \in 1..Len(t) |-> Upper(t[i])]

\* load_fleet: the plates read from the text of processor.py
load_fleet == processor_py

\* save_fleet_to_processor: the text of processor.py is rewritten; the set
\* ALLOWED_PLATES of a running process is not touched
save_fleet_to_processor(plates, save_ok) ==
  /\ processor_py' = IF save_ok THEN plates ELSE processor_py
  /\ UNCHANGED <<now, files, saving, message, parsed, nextMsg, ALLOWED_PLATES,
                 car_last_update, approvals, validation_errors, whatsapp,
                 confirmations, efficiency_history, workbook, store, errors,
                 accepted, outcome, inflight, processed_message_ids, message_ids,
                 inbox, processed>>

\* web.py admin_add_vehicle: POST /api/admin/fleet/add, admin session checked
admin_add_vehicle(plate, save_ok) ==
  IF WebPlate(plate) = NoPlate \/ WebPlate(plate) \in load_fleet
  THEN UNCHANGED vars
  ELSE save_fleet_to_processor(load_fleet \cup {WebPlate(plate)}, save_ok)

\* web.py admin_remove_vehicle: POST /api/admin/fleet/remove
admin_remove_vehicle(plate, save_ok) ==
  IF WebPlate(plate) = NoPlate \/ WebPlate(plate) \notin load_fleet
  THEN UNCHANGED vars
  ELSE save_fleet_to_processor(load_fleet \ {WebPlate(plate)}, save_ok)

AdminAddVehicle ==
  \E plate \in CommandPlates \cup {NoPlate}, save_ok \in BOOLEAN :
     admin_add_vehicle(plate, save_ok)

AdminRemoveVehicle ==
  \E plate \in CommandPlates \cup {NoPlate}, save_ok \in BOOLEAN :
     admin_remove_vehicle(plate, save_ok)

NextFleet ==
  \/ ProcessFuelReport
  \/ AddVehicle
  \/ RemoveVehicle
  \/ AdminAddVehicle
  \/ AdminRemoveVehicle
  \/ Tick

SpecFleet == Init /\ [][NextFleet]_vars

\* the whitelist test of process_fuel_report for a report naming this plate
PassesWhitelist(plate) == normalize_plate(plate) \in ALLOWED_PLATES

\* C23: whichever entry point an admin uses, once a plate has been added a
\* report for it passes the whitelist test, and once a plate has been
\* removed a report for it is rejected.
C23_WhitelistFollowsAdmins ==
  [][\A plate \in CommandPlates :
       /\ (add_vehicle_to_fleet(plate) \/ admin_add_vehicle(plate, TRUE))
            => PassesWhitelist(plate)'
       /\ (remove_vehicle_from_fleet(plate) \/ admin_remove_vehicle(plate, TRUE))
            => ~PassesWhitelist(plate)']_vars

\* C23: a plate added through the dashboard is in processor.py, and a report
\* for it is still turned away by the webhook as not in the fleet
C23_AddedPlateRejected ==
  /\ ZZZ999Z \in processor_py
  /\ ~PassesWhitelist(ZZZ999Z)
  /\ WebhookDecision([BaseParsed EXCEPT !.car = ZZZ999Z], AllSaved) = "unauthorized"
  /\ Len(outcome) = 1
  /\ outcome[1].result = "unauthorized"

(******************* C24: commands and group admins ************************)
MaxReplies == 3      \* messages sent to the group over a run of commands

\* the first word of a message that starts with '!', lower case
Commands == {"!how", "!status", "!pending", "!approve", "!reject", "!list",
             "!add", "!remove", "!help", "!fuel"}

\* process_admin_command refusing nobody
Denied_NoAdminTest(command, is_admin) == FALSE

\* process_admin_command: '!how' is public, any other command is refused to
\* a sender who is not an admin of the group
Denied(command, is_admin) == command # "!how" /\ ~is_admin

\* what process_admin_command sends to the group; "" when it sends nothing
CommandReply(command, has_arg, id, plate, is_admin, save_ok) ==
  IF command = "!how" THEN "HOW TO SEND FUEL UPDATES"
  ELSE IF Denied(command, is_admin) THEN "Access Denied"
  ELSE CASE command = "!status" -> "SYSTEM STATUS"
         [] command = "!pending" -> "PENDING APPROVALS"
         [] command = "!list" -> "FLEET LIST"
         [] command = "!help" -> "ADMIN COMMANDS"
         [] command \in {"!approve", "!reject", "!add", "!remove"} /\ ~has_arg -> "USAGE"
         [] command = "!approve" ->
              IF DecisionMessage(id, save_ok) = "ok" THEN "APPROVED" ELSE "ERROR"
         [] command = "!reject" ->
              IF DecisionMessage(id, save_ok) = "ok" THEN "REJECTED" ELSE "ERROR"
         [] command = "!add" ->
              IF normalize_plate(plate) \in ALLOWED_PLATES THEN "WARN" ELSE "ADDED"
         [] command = "!remove" ->
              IF normalize_plate(plate) \in ALLOWED_PLATES THEN "REMOVED" ELSE "WARN"
         [] OTHER -> ""

\* process_admin_command(command_text, ..., is_admin): the command of a group
\* message, with evolution_webhook's is_admin = sender_phone in admin_phones
process_admin_command(command, has_arg, id, plate, is_admin, save_ok, o) ==
  LET reply == CommandReply(command, has_arg, id, plate, is_admin, save_ok)
      runs == ~Denied(command, is_admin) /\ has_arg
      pl == normalize_plate(plate)
  IN
  /\ whatsapp' = IF reply = "" THEN whatsapp
                 ELSE Append(whatsapp, WhatsApp(0, "group", reply, 0))
  /\ approvals' = CASE runs /\ command = "!approve" -> approve_pending(id, save_ok)
                    [] runs /\ command = "!reject" -> reject_pending(id, save_ok)
                    [] OTHER -> approvals
  /\ IF runs /\ command = "!approve" /\ DecisionMessage(id, save_ok) = "ok"
     THEN process_approved_record(RecordOf(id), o)
     ELSE UNCHANGED <<store, accepted, car_last_update>>
  /\ ALLOWED_PLATES' = CASE runs /\ command = "!add" -> ALLOWED_PLATES \cup {pl}
                         [] runs /\ command = "!remove" -> ALLOWED_PLATES \ {pl}
                         [] OTHER -> ALLOWED_PLATES
  /\ processor_py' =
       CASE runs /\ command = "!add" /\ pl \notin ALLOWED_PLATES -> processor_py \cup {pl}
         [] runs /\ command = "!remove" /\ pl \in ALLOWED_PLATES -> processor_py \ {pl}
         [] OTHER -> processor_py
  /\ UNCHANGED <<now, files, saving, message, parsed, nextMsg, validation_errors,
                 confirmations, efficiency_history, workbook, errors, outcome,
                 inflight, processed_message_ids, message_ids, inbox, processed>>

GroupCommand ==
  /\ Len(whatsapp) < MaxReplies
  /\ \E command \in Commands, has_arg \in BOOLEAN, id \in ApprovalIds,
        plate \in CommandPlates, is_admin \in BOOLEAN, save_ok \in BOOLEAN,
        o \in {AllSaved} :
       process_admin_command(command, has_arg, id, plate, is_admin, save_ok, o)

\* reports through the webhook, so that there are approvals to decide
CommandsReport ==
  /\ nextMsg <= MaxReports
  /\ \E p \in RaceParsed : process_fuel_report(p, AllSaved)
  /\ UNCHANGED <<inflight, processed_message_ids, message_ids>>

NextCommands ==
  \/ CommandsReport
  \/ GroupCommand

SpecCommands == Init /\ [][NextCommands]_vars

\* C24: a command sent by someone who is not a group admin decides no
\* approval, stores nothing and leaves the fleet list as it was; it is
\* answered with the guide when it is '!how' and with the access-denied
\* message whatever else it is.
C24_NonAdminChangesNothing ==
  [][\A command \in Commands, has_arg \in BOOLEAN, id \in ApprovalIds,
        plate \in CommandPlates, save_ok \in BOOLEAN :
       process_admin_command(command, has_arg, id, plate, FALSE, save_ok, AllSaved) =>
         /\ UNCHANGED <<approvals, ALLOWED_PLATES, processor_py, store, accepted,
                        car_last_update>>
         /\ Len(whatsapp') = Len(whatsapp) + 1
         /\ whatsapp'[Len(whatsapp')].kind =
              IF command = "!how" THEN "HOW TO SEND FUEL UPDATES" ELSE "Access Denied"]_vars

\* C24: with an approval pending, '!approve' of a non-admin was refused, and
\* the approval is still pending
C24_Witness ==
  /\ Len(approvals) = 1
  /\ approvals[1].status = "pending"
  /\ Len(whatsapp) = 3
  /\ whatsapp[3].kind = "Access Denied"
  /\ ALLOWED_PLATES = InitialFleet

(******************** C25, C26: FuelReportParser.parse *********************)
MaxRotation == 6     \* the orders of the 7 lines: rotations of the usual one

Letters == {"A", "B", "C", "D", "E", "F", "G", "H", "I", "J", "K", "L", "M",
            "N", "O", "P", "Q", "R", "S", "T", "U", "V", "W", "X", "Y", "Z"}
Digits == {"0", "1", "2", "3", "4", "5", "6", "7", "8", "9"}

KMDG_902Z == <<"K", "M", "D", "G", " ", "9", "0", "2", "Z">>

\* A message is 7 lines 'LABEL sep value'.  Words are kept in upper case
\* with the letter case they are written in beside them, so that upper()
\* and title() change the case and leave the letters.
Styles == {"upper", "lower", "title"}
Separators == {":", "-", "=", " : "}

\* words of a name or a department, cut where a keyword of the patterns
\* begins inside them: 'Oscar' is 'Os' + 'car'
DriverNames == {<<"JOHN", " ", "KAMAU">>, <<"OS", "CAR", " ", "MWANGI">>}
Departments == {<<"LOGISTICS">>}
WrittenPlates == {KCA_542Q, KMDG_902Z}
WrittenLiters == {"45", "600"}

CanonicalOrder ==
  <<"department", "driver", "car", "liters", "amount", "type", "odometer">>

Rotate(order, k) == [i \in 1..Len(order) |-> order[((i + k - 1) % Len(order)) + 1]]
Reverse(order) == [i \in 1..Len(order) |-> order[Len(order) + 1 - i]]

Orders == {Rotate(CanonicalOrder, k) : k \in 0..MaxRotation}
            \cup {Reverse(CanonicalOrder)}

\* the well-formed messages: every field once, under its usual label
Messages ==
  {[order |-> o, case |-> c, sep |-> s,
    values |-> [department |-> dep, driver |-> d, car |-> pl, liters |-> l,
                amount |-> "7,000", type |-> "DIESEL", odometer |-> "10400"]] :
     o \in Orders, c \in Styles, s \in Separators, dep \in Departments,
     d \in DriverNames, pl \in WrittenPlates, l \in WrittenLiters}

Label(f) == CASE f = "department" -> "DEPARTMENT" [] f = "driver" -> "DRIVER"
              [] f = "car" -> "CAR" [] f = "liters" -> "LITERS"
              [] f = "amount" -> "AMOUNT" [] f = "type" -> "TYPE"
              [] OTHER -> "ODOMETER"

\* message_body.upper().strip()
upper(m) == [m EXCEPT !.case = "upper"]

\* the lines of a text, in the order they are written
Lines(m) ==
  [i \in 1..Len(m.order) |->
     [label |-> Label(m.order[i]), case |-> m.case, sep |-> m.sep,
      value |-> m.values[m.order[i]]]]

\* \s*[:\-=]\s* : the separator with the blanks around it
SeparatorOf(sep) == IF sep = " : " THEN ":" ELSE sep

\* the first line on which LABEL\s*[:\-=]\s* of the field's first pattern
\* matches (re.IGNORECASE), 0 when there is none
LineOf(m, f) ==
  LET hits == {i \in 1..Len(Lines(m)) : /\ Lines(m)[i].label = Label(f)
                                        /\ SeparatorOf(Lines(m)[i].sep) \in {":", "-", "="}}
  IN IF hits = {} THEN 0 ELSE CHOOSE i \in hits : \A j \in hits : i <= j

RECURSIVE Span(_, _)
Span(s, class) == IF s = << >> THEN 0
                  ELSE IF Head(s) \in class THEN 1 + Span(Tail(s), class) ELSE 0

Drop(s, n) == SubSeq(s, n + 1, Len(s))
Least(a, b) == IF a < b THEN a ELSE b

\* the words a stop keyword of the free-text patterns begins with
StopWords(f) ==
  {"CAR", "LITERS", "LITRES", "AMOUNT", "TYPE", "ODOMETER"}
    \cup (IF f = "department" THEN {"DRIVER"} ELSE {})

RECURSIVE UntilStop(_, _)
UntilStop(words, stops) ==
  IF words = << >> \/ Head(words) \in stops THEN << >>
  ELSE <<Head(words)>> \o UntilStop(Tail(words), stops)

\* (.+?)(?=\n|CAR|LITERS|...|$): at least one character, then as little as
\* possible up to the end of the line or the next keyword
FreeText(words, stops) ==
  IF words = << >> THEN << >>
  ELSE <<Head(words)>> \o UntilStop(Tail(words), stops)

RECURSIVE strip(_)
strip(words) ==
  IF words = << >> THEN << >>
  ELSE IF Head(words) = " " THEN strip(Tail(words))
  ELSE IF words[Len(words)] = " " THEN strip(SubSeq(words, 1, Len(words) - 1))
  ELSE words

\* ([A-Z]{2,4}\s*\d{2,4}\s*[A-Z]?) followed by the end of the line
PlateCaptured(s) ==
  LET l == Least(Span(s, Letters), 4)
      s1 == Drop(s, l)
      s2 == Drop(s1, Span(s1, {" "}))
      d == Least(Span(s2, Digits), 4)
      s3 == Drop(s2, d)
      s4 == Drop(s3, Span(s3, {" "}))
      s5 == IF s4 # << >> /\ Head(s4) \in Letters THEN Tail(s4) ELSE s4
  IN l >= 2 /\ d >= 2 /\ s5 = << >>

\* re.match(r'^[A-Z]{2,3}\s*\d{2,4}\s*[A-Z]{0,3}$', plate)
UsualPlate(s) ==
  LET l == Least(Span(s, Letters), 3)
      s1 == Drop(s, l)
      s2 == Drop(s1, Span(s1, {" "}))
      d == Least(Span(s2, Digits), 4)
      s3 == Drop(s2, d)
      s4 == Drop(s3, Span(s3, {" "}))
      s5 == Drop(s4, Least(Span(s4, Letters), 3))
  IN l >= 2 /\ d >= 2 /\ s5 = << >>

\* float(value.replace(',', '')) of the digit strings of the messages
NumberOf(digits) ==
  CASE digits = "45" -> 45 [] digits = "600" -> 600 [] digits = "7,000" -> 7000
    [] digits = "10400" -> 10400 [] digits = "10,400" -> 10400
    [] digits = "0" -> 0 [] OTHER -> BadNum

VALID_FUEL_TYPES == {"DIESEL", "PETROL", "SUPER", "V-POWER", "UNLEADED", "AGO"}

\* _extract_field over the upper-case text: what group 1 of the field's
\* first pattern holds; found is FALSE when the pattern does not match
extract_field(m, f) ==
  LET i == LineOf(m, f)
      v == Lines(m)[i].value
  IN IF i = 0 THEN [found |-> FALSE]
     ELSE CASE f \in {"driver", "department"} ->
                 [found |-> strip(FreeText(v, StopWords(f))) # << >>,
                  value |-> strip(FreeText(v, StopWords(f)))]
            [] f = "car" -> [found |-> PlateCaptured(v), value |-> v]
            [] f = "type" ->
                 [found |-> v \in VALID_FUEL_TYPES \cup {"VPOWER"}, value |-> v]
            [] OTHER -> [found |-> TRUE, value |-> v]

\* _clean_value
clean_value(f, value) ==
  CASE f = "driver" -> [words |-> value, case |-> "title"]
    [] f = "department" -> [words |-> value, case |-> "upper"]
    [] f = "car" -> value
    [] f = "type" -> (CASE value = "VPOWER" -> "V-POWER" [] value = "AGO" -> "DIESEL"
                        [] OTHER -> value)
    [] OTHER -> NumberOf(value)

required_fields == {"driver", "car", "liters", "amount", "type", "odometer"}

\* the fields parse puts into data
Extracted(m) == {f \in Fields : extract_field(upper(m), f).found}

ParsedData(m) == [f \in Extracted(m) |-> clean_value(f, extract_field(upper(m), f).value)]

\* _validate: the findings, hard ones and warnings in one list
validate(data) ==
  {e \in {"Invalid liters value", "Warning: unusually high liters",
          "Invalid amount value", "Unknown fuel type", "Invalid odometer value",
          "Warning: unusual plate format"} :
     CASE e = "Invalid liters value" ->
            "liters" \in DOMAIN data /\ IsNumber(data["liters"]) /\ data["liters"] <= 0
       [] e = "Warning: unusually high liters" ->
            "liters" \in DOMAIN data /\ IsNumber(data["liters"]) /\ data["liters"] > 500
       [] e = "Invalid amount value" ->
            "amount" \in DOMAIN data /\ IsNumber(data["amount"]) /\ data["amount"] <= 0
       [] e = "Unknown fuel type" ->
            "type" \in DOMAIN data /\ data["type"] \notin VALID_FUEL_TYPES
       [] e = "Invalid odometer value" ->
            "odometer" \in DOMAIN data /\ IsNumber(data["odometer"])
              /\ data["odometer"] <= 0
       [] OTHER -> "car" \in DOMAIN data /\ ~UsualPlate(data["car"])}

Warnings == {"Warning: unusually high liters", "Warning: unusual plate format",
             "Unknown fuel type"}

\* the errors list of parse (its length, and what it holds)
ParseErrors(m) ==
  [missing |-> required_fields \ Extracted(m), findings |-> validate(ParsedData(m))]

NumErrors(m) == Cardinality(ParseErrors(m).missing) + Cardinality(ParseErrors(m).findings)

\* FuelReportParser.parse: (None, errors) or (data, errors)
parse(m, strict_mode) ==
  IF strict_mode /\ NumErrors(m) > 0
  THEN [none |-> TRUE, errors |-> ParseErrors(m)]
  ELSE IF ~strict_mode /\ Cardinality(Extracted(m)) >= 2
  THEN [none |-> FALSE, data |-> ParsedData(m), errors |-> ParseErrors(m)]
  ELSE IF NumErrors(m) = Cardinality(required_fields)
  THEN [none |-> TRUE, errors |-> ParseErrors(m)]
  ELSE [none |-> FALSE, data |-> ParsedData(m), errors |-> ParseErrors(m)]

InitParse == message \in Messages /\ InitStores

\* the parser is run once on the text, in strict or in lenient mode
Parse ==
  /\ ~parsed.done
  /\ \E strict_mode \in BOOLEAN :
       parsed' = [done |-> TRUE, strictMode |-> strict_mode,
                  result |-> parse(message, strict_mode)]
  /\ UNCHANGED <<now, nextMsg, ALLOWED_PLATES, car_last_update, approvals,
                 validation_errors, whatsapp, confirmations, efficiency_history,
                 workbook, store, errors, accepted, outcome, inflight,
                 processed_message_ids, message_ids, inbox, processed,
                 processor_py, files, saving, message>>

NextParse == Parse

SpecParse == InitParse /\ [][NextParse]_vars

\* C25: a report whose only findings are warnings (liters above 500, an
\* unusual plate format, an unknown fuel type) is not rejected by the
\* parser, in strict mode or in lenient mode.
C25_WarningsNeverReject ==
  (/\ parsed.done
   /\ parsed.result.errors.missing = {}
   /\ parsed.result.errors.findings \subseteq Warnings)
    => ~parsed.result.none

\* C25: in strict mode, a complete report of 600 liters for KCA 542Q came
\* back as None with the warning as its only finding
C25_StrictRejectsWarning ==
  /\ parsed.done
  /\ parsed.strictMode
  /\ parsed.result.none
  /\ parsed.result.errors.missing = {}
  /\ parsed.result.errors.findings = {"Warning: unusually high liters"}
  /\ message.values.car = KCA_542Q

\* C26: for a well-formed message holding the 7 fields in any order, letter
\* case and separator, parse (lenient mode) returns all 7 fields with the
\* values written in the message, letter case aside.
C26_AllFieldsRecovered ==
  (parsed.done /\ ~parsed.strictMode) =>
    /\ ~parsed.result.none
    /\ DOMAIN parsed.result.data = Fields
    /\ parsed.result.data["department"].words = message.values.department
    /\ parsed.result.data["driver"].words = message.values.driver
    /\ parsed.result.data["car"] = message.values.car
    /\ parsed.result.data["liters"] = NumberOf(message.values.liters)
    /\ parsed.result.data["amount"] = NumberOf(message.values.amount)
    /\ parsed.result.data["type"] = message.values.type
    /\ parsed.result.data["odometer"] = NumberOf(message.values.odometer)

\* C26: the message names the driver Oscar Mwangi and parse returned 'Os'
C26_DriverCutShort ==
  /\ parsed.done
  /\ ~parsed.strictMode
  /\ ~parsed.result.none
  /\ message.values.driver = <<"OS", "CAR", " ", "MWANGI">>
  /\ parsed.result.data["driver"].words = <<"OS">>
  /\ DOMAIN parsed.result.data = Fields

\* C25 for the lenient mode alone
C25_LenientNeverRejects == (parsed.done /\ ~parsed.strictMode) => ~parsed.result.none

\* C26 for the messages whose name and department hold no keyword
C26_PlainNamesRecovered ==
  (\A i \in 2..Len(message.values.driver) :
      message.values.driver[i] \notin StopWords("driver"))
    => C26_AllFieldsRecovered

(****************** C27: the approvals file, two processes *****************)
\* Every function that changes pending_approvals.json reads the whole list
\* with safe_json_load, changes its copy and writes the whole copy back with
\* safe_json_save; the lock of safe_json_load is released when the read
\* returns.  The processor creates entries, the webhook decides them.

ApprovalsFrame ==
  UNCHANGED <<now, files, saving, message, parsed, ALLOWED_PLATES, processor_py,
              car_last_update, validation_errors, whatsapp, confirmations,
              efficiency_history, workbook, store, errors, accepted,
              processed_message_ids, message_ids, inbox, processed>>

\* save_pending_approval, up to safe_json_load: the processor holds a copy
create_load(p) ==
  /\ Idle("inbox")
  /\ inflight' = [inflight EXCEPT !["inbox"] =
                    <<[op |-> "create", list |-> approvals, id |-> nextMsg,
                       record |-> MakeRecord(nextMsg, [p EXCEPT !.car = normalize_plate(p.car)])]>>]
  /\ nextMsg' = nextMsg + 1
  /\ UNCHANGED <<approvals, outcome>>
  /\ ApprovalsFrame

\* save_pending_approval, from approvals.append to safe_json_save
create_save ==
  /\ ~Idle("inbox")
  /\ approvals' = Trimmed(Append(Task("inbox").list,
                    [id |-> Task("inbox").id, type |-> "car_cooldown", timestamp |-> now,
                     record |-> Task("inbox").record, original_record |-> << >>,
                     reason |-> 0, status |-> "pending"]))
  /\ outcome' = Append(outcome, Outcome(Task("inbox").id, "inbox", "pending"))
  /\ inflight' = Released("inbox")
  /\ UNCHANGED nextMsg
  /\ ApprovalsFrame

\* approve_pending / reject_pending, up to safe_json_load; a call that finds
\* no pending entry of this id returns without writing
decide_load(id, status) ==
  /\ Idle("webhook")
  /\ DecisionMessage(id, TRUE) = "ok"
  /\ inflight' = [inflight EXCEPT !["webhook"] =
                    <<[op |-> status, list |-> approvals, id |-> id]>>]
  /\ UNCHANGED <<approvals, outcome, nextMsg>>
  /\ ApprovalsFrame

\* approve_pending / reject_pending, from the change of the status to
\* safe_json_save; the admin is told the decision when the save succeeds
decide_save(save_ok) ==
  /\ ~Idle("webhook")
  /\ LET t == Task("webhook") IN
       /\ approvals' = IF save_ok
                       THEN [t.list EXCEPT ![IndexOf(t.list, t.id)].status = t.op]
                       ELSE approvals
       /\ outcome' = IF save_ok THEN Append(outcome, Outcome(t.id, "webhook", t.op))
                     ELSE outcome
  /\ inflight' = Released("webhook")
  /\ UNCHANGED nextMsg
  /\ ApprovalsFrame

CreateLoad == nextMsg <= MaxReports /\ \E p \in RaceParsed : create_load(p)
CreateSave == create_save
DecideLoad == \E id \in ApprovalIds, status \in {"approved", "rejected"} :
                 decide_load(id, status)
DecideSave == \E save_ok \in BOOLEAN : decide_save(save_ok)

NextApprovals ==
  \/ CreateLoad
  \/ CreateSave
  \/ DecideLoad
  \/ DecideSave
  \/ Tick

SpecApprovals == Init /\ [][NextApprovals]_vars

\* what the callers were told: the approvals created, and the decisions made
Created == {outcome[i].msg : i \in {j \in 1..Len(outcome) : outcome[j].path = "inbox"}}
DecidedAs(id) ==
  {outcome[i].result : i \in {j \in 1..Len(outcome) :
                                 outcome[j].path = "webhook" /\ outcome[j].msg = id}}

\* C27: whatever the interleaving of create, approve and reject on the
\* approvals file, an approval that was created is in the list, and an
\* approval that was decided has the status it was decided with.
C27_NoLostUpdate ==
  /\ \A id \in Created : HasApproval(approvals, id)
  /\ \A id \in Created :
       (HasApproval(approvals, id) /\ DecidedAs(id) # {}) => StatusOf(id) \in DecidedAs(id)

\* C27: the second approval was created and is not in the file, with both
\* processes at rest
C27_ApprovalLost ==
  /\ Created = {1, 2}
  /\ ~HasApproval(approvals, 2)
  /\ HasApproval(approvals, 1)
  /\ StatusOf(1) = "approved"
  /\ \A h \in Handlers : Idle(h)

\* C27: the first approval was approved and is pending again
C27_DecisionReverted ==
  /\ DecidedAs(1) = {"approved"}
  /\ HasApproval(approvals, 1)
  /\ StatusOf(1) = "pending"
  /\ \A h \in Handlers : Idle(h)

(************* C29: check_car_cooldown when the notice fails ***************)
\* After save_pending_approval, check_car_cooldown builds the notice for the
\* admins and queues it with save_validation_error, all inside the try block
\* of the function.  safe_json_save of the queue returning False is not
\* looked at ("save_failed"); an exception raised by one of these steps
\* ("raised") is caught by the except clause, which logs it, and the function
\* ends with return True, None.
NoticeFailures == {"save_failed", "raised"}

\* what check_car_cooldown returns for a report inside the cooldown
CooldownReturn_Blocked(notice) == "blocked"

CooldownReturn(notice) == IF notice = "raised" THEN "allowed" ELSE "blocked"

\* process_message_file for a report inside the cooldown whose notice fails
process_message_file_notice(p, excel_ok, notice) ==
  LET m == nextMsg
      raw == MakeRecord(m, p)
      record == [raw EXCEPT !.car = normalize_plate(raw.car)]
      plate == record.car
      eff == RecordEfficiency(record)
      alert == EfficiencyAlert(eff)
      d == IF CooldownReturn(notice) = "blocked" THEN "pending"
           ELSE InboxDecision(p, TRUE, excel_ok)
  IN
  /\ InboxDecision(p, FALSE, excel_ok) = "pending"
  /\ approvals' = CooldownApprovals(plate, record)
  /\ UNCHANGED <<inflight, processed_message_ids, message_ids, inbox, processed,
                 now, files, saving, message, parsed, ALLOWED_PLATES, processor_py,
                 whatsapp, store>>
  /\ IF d = "retry" THEN UNCHANGED <<nextMsg, errors, outcome>>
     ELSE
       /\ nextMsg' = nextMsg + 1
       /\ outcome' = Append(outcome, Outcome(m, "inbox", d))
       /\ errors' = IF d = "accepted" THEN errors
                    ELSE Append(errors, [msg |-> m, reason |-> d])
  /\ validation_errors' =
       CASE d = "odometer_error" ->
              Append(validation_errors, ValidationError(record, "Odometer reading", FALSE, 0))
         [] d = "accepted" /\ alert # "" ->
              Append(validation_errors, ValidationError(record, alert, TRUE, 0))
         [] OTHER -> validation_errors
  /\ IF d = "accepted" THEN
       /\ workbook' = Append(workbook, record)
       /\ accepted' = Append(accepted, Accepted(record, "inbox"))
       /\ efficiency_history' =
            IF eff # NoEfficiency
            THEN Append(efficiency_history,
                   [msg |-> m, car |-> plate, distance |-> eff[1], liters |-> eff[2]])
            ELSE efficiency_history
       /\ car_last_update' = update_car_last_update(plate, record, eff)
       /\ confirmations' = Append(confirmations, [msg |-> m, efficiency |-> eff])
     ELSE UNCHANGED <<workbook, accepted, efficiency_history, car_last_update,
                      confirmations>>

ProcessNoticeFailed ==
  /\ nextMsg <= MaxReports
  /\ Len(approvals) < MaxReports
  /\ \E p \in ParserResults, excel_ok \in BOOLEAN, notice \in NoticeFailures :
       process_message_file_notice(p, excel_ok, notice)

NextCooldown ==
  \/ ProcessMessageFile
  \/ ProcessNoticeFailed
  \/ Tick

SpecCooldown == Init /\ [][NextCooldown]_vars

\* the approvals a step saves
JustSaved == {k \in 1..Len(approvals') : k > Len(approvals)}

\* C29: a step in which check_car_cooldown saves a pending approval for a
\* report ends that report as pending, and the report is never among the
\* accepted records while its approval awaits a decision; also when building
\* or queuing the notice fails.
C29_SavedMeansBlocked ==
  /\ [][JustSaved # {} =>
          /\ Len(outcome') = Len(outcome) + 1
          /\ outcome'[Len(outcome')].result = "pending"
          /\ UNCHANGED <<accepted, workbook, car_last_update>>]_vars
  /\ [](\A k \in 1..Len(approvals), i \in 1..Len(accepted) :
          approvals[k].status = "pending" => accepted[i].record # approvals[k].record)

\* C29: a report was written to the workbook by the step that saved its
\* pending approval, and no notice of the approval was queued
C29_AcceptedAndPending ==
  /\ Len(accepted) = 2
  /\ Len(approvals) = 1
  /\ approvals[1].status = "pending"
  /\ approvals[1].record = accepted[2].record
  /\ workbook[2] = accepted[2].record
  /\ \A i \in 1..Len(validation_errors) : ~validation_errors[i].is_approval_request

(************* C28: what process_message_file returns **********************)
\* process_message_file returned True in this step: the scan counted the file
\* as processed.  The retry branch (return False) leaves every variable as
\* it was.
ReturnedTrue == Len(message_ids') = Len(message_ids) + 1

\* the file a step has just processed
JustScanned == message_ids'[Len(message_ids')]

\* the files whose workbook write is what decides between retry and accept
AwaitingWrite ==
  {t \in inbox : t.valid_json /\ InboxDecision(t.p, t.isApproved, FALSE) = "retry"}

\* C28: a scan whose workbook write fails for another reason than the
\* odometer returns False and leaves the file in the inbox with
\* VehicleLastState, the efficiency history and the confirmation queue as they
\* were; True is returned only for a file that the step moved to processed or
\* to errors; and when the write succeeds on a later scan the file is accepted
\* and leaves the inbox.
C28_FalseKeepsTrueMoves ==
  /\ [][\A t \in AwaitingWrite :
          scan_file(t, FALSE) =>
            /\ ~ReturnedTrue
            /\ UNCHANGED <<inbox, car_last_update, efficiency_history, confirmations,
                           workbook, accepted>>]_vars
  /\ [][ReturnedTrue =>
          /\ \A t \in inbox' : t.file # JustScanned
          /\ \/ JustScanned \in processed' \ processed
             \/ /\ Len(errors') = Len(errors) + 1
                /\ JustScanned \notin processed']_vars
  /\ [][\A t \in AwaitingWrite :
          scan_file(t, TRUE) =>
            /\ ReturnedTrue
            /\ t \notin inbox'
            /\ t.file \in processed'
            /\ Len(accepted') = Len(accepted) + 1]_vars

\* C28 for the files that json.load accepts
C28_WellFormedFalseKeepsTrueMoves ==
  /\ [][\A t \in AwaitingWrite :
          scan_file(t, FALSE) =>
            /\ ~ReturnedTrue
            /\ UNCHANGED <<inbox, car_last_update, efficiency_history, confirmations,
                           workbook, accepted>>]_vars
  /\ [][(ReturnedTrue /\ outcome'[Len(outcome')].result # "invalid_json") =>
          /\ \A t \in inbox' : t.file # JustScanned
          /\ \/ JustScanned \in processed' \ processed
             \/ /\ Len(errors') = Len(errors) + 1
                /\ JustScanned \notin processed']_vars
  /\ [][\A t \in AwaitingWrite :
          scan_file(t, TRUE) =>
            /\ ReturnedTrue
            /\ t \notin inbox'
            /\ t.file \in processed'
            /\ Len(accepted') = Len(accepted) + 1]_vars

\* C28: True was returned for the only file of the inbox, which is in the
\* inbox still and in neither processed nor errors
C28_TrueAndStillInInbox ==
  /\ Len(message_ids) = 1
  /\ \E t \in inbox : t.file = message_ids[1]
  /\ outcome[1].result = "invalid_json"
  /\ processed = {}
  /\ errors = << >>

\* C28: a file whose write could fail was accepted and has left the inbox
C28_AcceptedAfterWrite ==
  /\ Len(accepted) = 1
  /\ message_ids = <<1>>
  /\ processed = {1}
  /\ inbox = {}

(**************** C30: the webhook path and the inbox path *****************)
\* where process_message_file leaves VehicleLastState and the approvals list
\* for a message the listener wrote without the isApproved flag, the workbook
\* being writable
InboxLastState(p) ==
  LET raw == MakeRecord(nextMsg, p)
      record == [raw EXCEPT !.car = normalize_plate(raw.car)]
  IN IF InboxDecision(p, FALSE, TRUE) = "accepted"
     THEN update_car_last_update(record.car, record, RecordEfficiency(record))
     ELSE car_last_update

InboxApprovals(p) ==
  LET raw == MakeRecord(nextMsg, p)
      record == [raw EXCEPT !.car = normalize_plate(raw.car)]
  IN IF InboxDecision(p, FALSE, TRUE) = "pending"
     THEN CooldownApprovals(record.car, record)
     ELSE approvals

\* C30: for the same message and the same stored state the webhook path and
\* the inbox path reach the same decision and leave the same VehicleLastState
\* and the same approvals list.
C30_PathsAgree ==
  [][\A p \in ParserResults :
       (process_fuel_report(p, AllSaved)
          /\ UNCHANGED <<inflight, processed_message_ids, message_ids>>) =>
         /\ WebhookDecision(p, AllSaved) = InboxDecision(p, FALSE, TRUE)
         /\ car_last_update' = InboxLastState(p)
         /\ approvals' = InboxApprovals(p)]_vars

\* what the two paths do agree on: the rejections for the fields and the
\* fleet list and the deferral to approval
C30_EarlyDecisionsAgree ==
  \A p \in ParserResults :
    LET w == WebhookDecision(p, AllSaved)
        i == InboxDecision(p, FALSE, TRUE)
    IN \/ w = i
       \/ {w, i} = {"odometer_error", "accepted"}

\* C30: a report with a lower odometer than the plate's last state, which the
\* webhook path turns down, was accepted by the inbox path 12 hours after a
\* higher reading was accepted through the webhook
C30_InboxAcceptsWebhookRejects ==
  /\ Len(accepted) = 2
  /\ accepted[1].via = "webhook"
  /\ accepted[2].via = "inbox"
  /\ accepted[1].record.car = accepted[2].record.car
  /\ accepted[2].record.odometer < accepted[1].record.odometer
  /\ accepted[2].record.odometer > 0
  /\ car_last_update[accepted[2].record.car].odometer = accepted[2].record.odometer
  /\ approvals = << >>

\* C30: the same report accepted by both paths in the same stored state would
\* leave two different last states: the inbox path stores the efficiency
C30_LastStatesDiffer ==
  \E p \in ParserResults :
    /\ WebhookDecision(p, AllSaved) = "accepted"
    /\ InboxDecision(p, FALSE, TRUE) = "accepted"
    /\ InboxLastState(p) # update_car_last_update(normalize_plate(p.car),
                              MakeRecord(nextMsg, [p EXCEPT !.car = normalize_plate(p.car)]),
                              NoEfficiency)
    /\ Len(accepted) = 1

====
